---------------------------- MODULE Spec2Model ----------------------------
(***************************************************************************)
(* A model of the segmenter service (ambolt-studio/segmenter).             *)
(*                                                                         *)
(* Texts are TLA+ strings; a character is a string of length 1.  Offsets   *)
(* are those of the source (0-based, as in JavaScript) unless a name says  *)
(* otherwise.  Every operation of the service is a synchronous function;   *)
(* the two loops the claims speak about step by step advance by actions:   *)
(* chunkify's cursor loop one iteration per action, the page loop of       *)
(* extractFromParsedDocument one iteration in two actions (the page is     *)
(* extracted, then taken into the buffer).  Every other operation is       *)
(* applied in one action.                                                  *)
(***************************************************************************)
EXTENDS Integers, Sequences, FiniteSets, TLC

VARIABLES
    op,                     \* the operation this behaviour runs
    pc,                     \* its position: "call", "loop", "page" or "done"
    max,                    \* the max argument (characters per chunk)
    s,                      \* chunkify: the string argument
    start,                  \* chunkify: the cursor
    out,                    \* chunkify: the segments pushed so far, then the result
    parsedDoc,              \* extractFromParsedDocument: the document argument
    pageIdx,                \* extractFromParsedDocument: the page loop's index
    pageContent,            \* extractFromParsedDocument: the page's content
    pageMetadata,           \* extractFromParsedDocument: the page's metadata
    currentChunkContent,    \* extractFromParsedDocument: the running buffer
    currentChunkMetadata,   \* extractFromParsedDocument: its metadata
    startPageNum,           \* extractFromParsedDocument: first page of the buffer
    endPageNum,             \* extractFromParsedDocument: last page of the buffer
    idx,                    \* the next chunk number
    chunks,                 \* the chunks emitted so far, then the result
    bankName,               \* the bank name of the result
    tablesDetected,         \* the table count of the result
    text,                   \* extractFromText: the text argument
    html,                   \* extractFromHtml: the parsed markup
    doc,                    \* processDocument: the document argument
    input,                  \* handleSegment: the payload, the body of the request
    res,                    \* POST /segment: the response, [status, body]
    tableTransactions       \* extractTransactionsFromTable: the transactions returned

vars == <<op, pc, max, s, start, out, parsedDoc, pageIdx, pageContent,
          pageMetadata, currentChunkContent, currentChunkMetadata, startPageNum,
          endPageNum, idx, chunks, bankName, tablesDetected, text, html, doc,
          input, res, tableTransactions>>

---------------------------------------------------------------------------
(* Bounds of the model.                                                    *)

\* Longest short string handed to chunkify.
MaxLen == 4
\* Longest text before the filler of a long string handed to chunkify.
MaxPre == 1
\* Longest text after the filler of a long string handed to chunkify.
MaxTail == 3
\* Most pages of a parsed document.
MaxPages == 3

---------------------------------------------------------------------------
(* Strings.                                                                *)

Min(a, b) == IF a < b THEN a ELSE b

Max(a, b) == IF a > b THEN a ELSE b

SetMin(S) == CHOOSE x \in S : \A y \in S : x <= y

SetMax(S) == CHOOSE x \in S : \A y \in S : x >= y

\* F applied to the value of v: what a const declaration does, the value
\* computed once however often the body reads it.
Once(v, F(_)) == CHOOSE r \in {F(x) : x \in {v}} : TRUE

\* str.charAt(i): the character of str at 0-based offset i, "" beyond str.
CharAt(str, i) ==
    IF 0 <= i /\ i < Len(str) THEN SubSeq(str, i + 1, i + 1) ELSE ""

\* Of the characters of the model's texts, those that String.prototype.trim
\* removes and \s matches.
WhiteSpace == {" ", "\n", "\t", "\r"}

IsSpace(c) == c \in WhiteSpace

\* str.slice(from, to) for 0 <= from, to.
slice(str, from, to) == SubSeq(str, from + 1, Min(to, Len(str)))

\* str.trim()
trim(str) ==
    LET kept(i) == ~IsSpace(SubSeq(str, i, i))
    IN  IF \A i \in 1..Len(str) : ~kept(i) THEN ""
        ELSE LET first == CHOOSE i \in 1..Len(str) :
                              kept(i) /\ \A j \in 1..(i - 1) : ~kept(j)
                 last == CHOOSE i \in 1..Len(str) :
                              kept(i) /\ \A j \in (i + 1)..Len(str) : ~kept(j)
             IN  SubSeq(str, first, last)

\* str.lastIndexOf(pat): the greatest offset at which pat starts, or -1.
lastIndexOf(str, pat) ==
    LET at == {i \in 0..(Len(str) - Len(pat)) : slice(str, i, i + Len(pat)) = pat}
    IN  IF at = {} THEN -1 ELSE SetMax(at)

\* str.indexOf(pat): the least offset at which pat starts, or -1.
indexOf(str, pat) ==
    LET at == {i \in 0..(Len(str) - Len(pat)) : slice(str, i, i + Len(pat)) = pat}
    IN  IF at = {} THEN -1 ELSE SetMin(at)

\* str.includes(pat)
includes(str, pat) ==
    \E i \in 0..(Len(str) - Len(pat)) : slice(str, i, i + Len(pat)) = pat

\* str with every whitespace character deleted.
StripSpace(str) == SelectSeq(str, LAMBDA c : ~IsSpace(c))

\* c repeated n times (by halving: n may be in the thousands).
RECURSIVE Rep(_, _)
Rep(c, n) ==
    IF n = 0 THEN ""
    ELSE IF n = 1 THEN c
    ELSE LET h == Rep(c, n \div 2)
         IN  IF n % 2 = 0 THEN h \o h ELSE h \o h \o c

\* All strings over the alphabet A of length n, and of length at most n.
RECURSIVE StringsOfLen(_, _)
StringsOfLen(A, n) ==
    IF n = 0 THEN {""}
    ELSE {c \o w : c \in A, w \in StringsOfLen(A, n - 1)}

StringsUpTo(A, n) == UNION {StringsOfLen(A, k) : k \in 0..n}

\* The concatenation of a sequence of strings.
RECURSIVE Concat(_)
Concat(ss) == IF Len(ss) = 0 THEN "" ELSE Head(ss) \o Concat(Tail(ss))

\* ss.join(sep)
RECURSIVE join(_, _)
join(ss, sep) ==
    IF Len(ss) = 0 THEN ""
    ELSE IF Len(ss) = 1 THEN ss[1]
    ELSE ss[1] \o sep \o join(Tail(ss), sep)

\* ss.filter(Boolean) on an array of strings: the empty strings dropped.
RECURSIVE filterBoolean(_)
filterBoolean(ss) ==
    IF Len(ss) = 0 THEN <<>>
    ELSE IF Head(ss) = "" THEN filterBoolean(Tail(ss))
    ELSE <<Head(ss)>> \o filterBoolean(Tail(ss))

\* The k-th smallest element of a finite set of integers (k from 1).
Kth(S, k) == CHOOSE x \in S : Cardinality({y \in S : y < x}) = k - 1

\* str.split("\n")
split(str) ==
    LET nl == {i \in 0..(Len(str) - 1) : CharAt(str, i) = "\n"}
        n == Cardinality(nl)
        from(k) == IF k = 1 THEN 0 ELSE Kth(nl, k - 1) + 1
        to(k) == IF k = n + 1 THEN Len(str) ELSE Kth(nl, k)
    IN  [k \in 1..(n + 1) |-> slice(str, from(k), to(k))]

\* str.split(/\r?\n/): a carriage return right before a line feed belongs
\* to the separator.
splitLines(str) ==
    LET parts == split(str)
        cut(k) == IF /\ k < Len(parts)
                     /\ Len(parts[k]) > 0
                     /\ CharAt(parts[k], Len(parts[k]) - 1) = "\r"
                  THEN slice(parts[k], 0, Len(parts[k]) - 1)
                  ELSE parts[k]
    IN  [k \in 1..Len(parts) |-> cut(k)]

UpperCase == "ABCDEFGHIJKLMNOPQRSTUVWXYZ"

LowerCase == "abcdefghijklmnopqrstuvwxyz"

\* The letters, as a set of characters.
Letters == {CharAt(UpperCase, i) : i \in 0..25} \cup {CharAt(LowerCase, i) : i \in 0..25}

IsDigit(c) == c \in {"0", "1", "2", "3", "4", "5", "6", "7", "8", "9"}

\* \w of a regular expression.
IsWordChar(c) == IsDigit(c) \/ c = "_" \/ c \in Letters

\* str.toLowerCase() (by halving: str may be thousands of characters long).
RECURSIVE toLowerCase(_)
toLowerCase(str) ==
    IF Len(str) = 0 THEN ""
    ELSE IF Len(str) = 1
    THEN IF str \in Letters /\ includes(UpperCase, str)
         THEN CharAt(LowerCase, indexOf(UpperCase, str)) ELSE str
    ELSE LET h == Len(str) \div 2
         IN  toLowerCase(SubSeq(str, 1, h)) \o toLowerCase(SubSeq(str, h + 1, Len(str)))

\* str.startsWith(pat), the regular expression /^pat/ for a literal pat.
startsWith(str, pat) == slice(str, 0, Len(pat)) = pat

\* Every character of str is a digit.
AllDigits(str) == \A i \in 0..(Len(str) - 1) : IsDigit(CharAt(str, i))

\* The offsets j > i such that str[i, j) is a non-empty run of digits: where
\* \d+ matched from offset i may end.
DigitRunEnds(str, i) ==
    {j \in (i + 1)..Len(str) : \A k \in i..(j - 1) : IsDigit(CharAt(str, k))}

\* The array with its duplicates dropped, first occurrences kept:
\* [...new Set(arr)].
RECURSIVE Dedupe(_)
Dedupe(arr) ==
    IF Len(arr) = 0 THEN <<>>
    ELSE LET init == Dedupe(SubSeq(arr, 1, Len(arr) - 1))
             last == arr[Len(arr)]
         IN  IF \E i \in 1..Len(init) : init[i] = last THEN init
             ELSE Append(init, last)

---------------------------------------------------------------------------
(* chunkify (the Splitter).                                                *)

\* A breakpoint is used only when its offset in the window exceeds this.
MinBreak == 200

\* A splitter whose window is one character longer than max.
ChunkEnd_LongWindow(str, m, from) == Min(from + m + 1, Len(str))

\* A splitter that cuts before the breakpoint, not after its first
\* character.
ChunkEnd_BeforeBreak(str, m, from) ==
    LET end == Min(from + m, Len(str))
    IN  IF end < Len(str)
        THEN LET window == slice(str, from, end)
                 lastBreak == Max(lastIndexOf(window, "\n\n"),
                                  lastIndexOf(window, ". "))
             IN  IF lastBreak > MinBreak THEN from + lastBreak ELSE end
        ELSE end

\* A splitter that cuts at the breakpoint's offset, one character short.
ChunkEnd_AtBreak(str, m, from) ==
    LET end == Min(from + m, Len(str))
    IN  IF end < Len(str)
        THEN LET window == slice(str, from, end)
                 lastBreak == Max(lastIndexOf(window, "\n\n"),
                                  lastIndexOf(window, ". "))
             IN  IF lastBreak >= MinBreak THEN from + lastBreak ELSE end
        ELSE end

\* The end of the segment that starts at the cursor: one pass of lines
\* 386-391 of the loop body.
ChunkEnd(str, m, from) ==
    LET end == Min(from + m, Len(str))
    IN  IF end < Len(str)
        THEN LET window == slice(str, from, end)
                 lastBreak == Max(lastIndexOf(window, "\n\n"),
                                  lastIndexOf(window, ". "))
             IN  IF lastBreak > MinBreak THEN from + lastBreak + 1 ELSE end
        ELSE end

\* A splitter that drops the last character of each window.
ChunkSegment_Lossy(str, m, from) ==
    trim(slice(str, from, ChunkEnd(str, m, from) - 1))

\* The segment pushed for the cursor at from: s.slice(start, end).trim(),
\* the slice taken once.
ChunkSegment(str, m, from) ==
    Once(slice(str, from, ChunkEnd(str, m, from)), LAMBDA w : trim(w))

\* The while loop, run to its end from the cursor at from.
RECURSIVE ChunkLoop(_, _, _, _)
ChunkLoop(str, m, from, acc) ==
    IF from < Len(str)
    THEN ChunkLoop(str, m, ChunkEnd(str, m, from),
                   Append(acc, ChunkSegment(str, m, from)))
    ELSE acc

chunkify(str, m) ==
    IF str = "" THEN <<>>
    ELSE IF Len(str) <= m THEN <<str>>
    ELSE filterBoolean(ChunkLoop(str, m, 0, <<>>))


---------------------------------------------------------------------------
(* Values of optional fields.                                              *)

\* null of a metadata column, and undefined of an optional string.
Null == "<null>"

Undefined == "<undefined>"

\* if (v): a string field that is set and not empty.
Truthy(v) == v # Null /\ v # Undefined /\ v # ""

\* The metadata a page, and the running chunk, start from.
EmptyMetadata ==
    [has_transactions |-> FALSE,
     debit_columns |-> <<>>,
     credit_columns |-> <<>>,
     date_column |-> Null,
     description_column |-> Null,
     transaction_count |-> 0]

---------------------------------------------------------------------------
(* The state before an operation is chosen, shared by every Init.          *)

\* The value of an argument or a local of an operation that is not running.
Unused == "unused"

IdleChunkify == s = Unused /\ start = 0 /\ out = <<>>

IdleParsed ==
    /\ parsedDoc = Unused /\ pageIdx = 0
    /\ pageContent = "" /\ pageMetadata = EmptyMetadata
    /\ currentChunkContent = "" /\ currentChunkMetadata = EmptyMetadata
    /\ startPageNum = 1 /\ endPageNum = 1

IdleText == text = Unused

IdleHtml == html = Unused

IdleProcess == doc = Unused

\* No request is handled.
IdleHandle == input = <<>> /\ res = [status |-> 0, body |-> <<>>]

\* No table is read for its transactions.
IdleTable == tableTransactions = <<>>

\* Nothing is computed yet.
NoResult == idx = 1 /\ chunks = <<>> /\ bankName = Unused /\ tablesDetected = 0

---------------------------------------------------------------------------
(* chunkify, one loop iteration per action.                                *)

\* The characters the strings handed to chunkify are made of.
Alphabet == {"a", " ", ".", "\n"}

\* Short strings with every small max; and strings long enough for a
\* breakpoint beyond MinBreak: a prefix, MinBreak letters, a tail.
ChunkifyInputs ==
    {<<w, m>> : w \in StringsUpTo(Alphabet, MaxLen), m \in 1..MaxLen}
    \cup
    {<<u \o Rep("a", MinBreak) \o v, MinBreak + k>> :
        u \in StringsUpTo(Alphabet, MaxPre),
        v \in StringsUpTo(Alphabet, MaxTail),
        k \in 1..(MaxPre + MaxTail)}

InitChunkify ==
    /\ op = "chunkify" /\ pc = "call"
    /\ \E in \in ChunkifyInputs : s = in[1] /\ max = in[2]
    /\ start = 0 /\ out = <<>>
    /\ NoResult
    /\ IdleParsed /\ IdleText /\ IdleHtml /\ IdleProcess /\ IdleHandle
    /\ IdleTable

UnchangedButChunkify ==
    UNCHANGED <<op, max, s, parsedDoc, pageIdx, pageContent, pageMetadata,
                currentChunkContent, currentChunkMetadata, startPageNum,
                endPageNum, idx, chunks, bankName, tablesDetected, text, html,
                doc, input, res, tableTransactions>>

\* if (!s) return [];
ChunkifyEmpty ==
    /\ op = "chunkify" /\ pc = "call"
    /\ s = ""
    /\ out' = <<>> /\ start' = start /\ pc' = "done"
    /\ UnchangedButChunkify

\* if (s.length <= max) return [s];
ChunkifyWhole ==
    /\ op = "chunkify" /\ pc = "call"
    /\ s # "" /\ Len(s) <= max
    /\ out' = <<s>> /\ start' = start /\ pc' = "done"
    /\ UnchangedButChunkify

\* const out = []; let start = 0;
ChunkifyEnter ==
    /\ op = "chunkify" /\ pc = "call"
    /\ s # "" /\ Len(s) > max
    /\ out' = <<>> /\ start' = 0 /\ pc' = "loop"
    /\ UnchangedButChunkify

\* One iteration of while (start < s.length).
ChunkifyStep ==
    /\ op = "chunkify" /\ pc = "loop"
    /\ start < Len(s)
    /\ out' = Append(out, ChunkSegment(s, max, start))
    /\ start' = ChunkEnd(s, max, start)
    /\ pc' = "loop"
    /\ UnchangedButChunkify

\* return out.filter(Boolean);
ChunkifyReturn ==
    /\ op = "chunkify" /\ pc = "loop"
    /\ ~(start < Len(s))
    /\ out' = filterBoolean(out) /\ start' = start /\ pc' = "done"
    /\ UnchangedButChunkify

NextChunkify ==
    \/ ChunkifyEmpty
    \/ ChunkifyWhole
    \/ ChunkifyEnter
    \/ ChunkifyStep
    \/ ChunkifyReturn

SpecChunkify == InitChunkify /\ [][NextChunkify]_vars

ChunkifyDone == op = "chunkify" /\ pc = "done"

---------------------------------------------------------------------------
(* Claims about chunkify, checked under SpecChunkify.                      *)

\* Each segment of a sequence of strings, trimmed.
TrimEach(ss) == [i \in 1..Len(ss) |-> trim(ss[i])]

\* C1: for every non-empty s and every max >= 1, every segment chunkify
\* returns is at most max characters long, and when s itself is at most max
\* characters long the result is the single segment s.
C1_SizeBound ==
    (ChunkifyDone /\ s # "") =>
        /\ \A i \in 1..Len(out) : Len(out[i]) <= max
        /\ Len(s) <= max => (Len(out) = 1 /\ Len(out[1]) = Len(s))

\* C1 witness: a string longer than max was cut into several segments, one
\* of them as long as max allows, and chunkify returned.
C1_Witness ==
    /\ ChunkifyDone /\ Len(s) > max /\ Len(out) >= 2
    /\ \E i \in 1..Len(out) : Len(out[i]) = max

\* C2: the segments of chunkify(s, max), concatenated in order and with all
\* whitespace deleted, are s with all whitespace deleted.
C2_Coverage ==
    ChunkifyDone => StripSpace(Concat(out)) = StripSpace(s)

\* C2 witness: chunkify cut s into several segments and trimmed whitespace
\* away, so the segments no longer concatenate to s itself.
C2_Witness ==
    /\ ChunkifyDone /\ Len(out) >= 2
    /\ Concat(out) # s
    /\ StripSpace(s) # ""

\* s does not start with a whitespace character.
NoLeadingSpace(str) == str = "" \/ ~IsSpace(CharAt(str, 0))

\* C3 as stated: chunkify(trim(s), max) is chunkify(s, max) with each
\* segment trimmed, for every s and max.
C3_TrimIdempotent_Original ==
    ChunkifyDone => chunkify(trim(s), max) = TrimEach(out)

\* Where the code agrees with C3: the same equality for every s that does
\* not start with whitespace, when no breakpoint can be used (max <= MinBreak + 2, so no
\* window holds a breakpoint beyond offset MinBreak) or s fits in one
\* segment (len(s) <= max).
C3_TrimIdempotent ==
    (/\ ChunkifyDone
     /\ NoLeadingSpace(s)
     /\ (max <= MinBreak + 2 \/ Len(s) <= max))
        => chunkify(trim(s), max) = TrimEach(out)

\* A string with trailing whitespace only, longer than max, was cut into
\* several segments.
C3_Witness ==
    /\ ChunkifyDone /\ NoLeadingSpace(s) /\ max <= MinBreak + 2
    /\ trim(s) # s /\ Len(trim(s)) > max /\ Len(out) >= 2

\* A breakpoint decides the segment that starts at the cursor.
BreakpointUsed ==
    /\ op = "chunkify" /\ pc = "loop" /\ start < Len(s)
    /\ ChunkEnd(s, max, start) < Min(start + max, Len(s))

---------------------------------------------------------------------------
(* extractFromParsedDocument: page extraction.                             *)

\* The separator put between two pages of one chunk.
PageBreak == "\n\n--- PAGE BREAK ---\n\n"

\* The marker put before the content of a table fragment.
TableMarker == "\n\n### TABLE ###\n"

\* /page \d+ of \d+/
MatchesPageNOfM(str) ==
    \E i \in 0..(Len(str) - 1) :
        /\ slice(str, i, i + 5) = "page "
        /\ \E j \in DigitRunEnds(str, i + 5) :
              /\ slice(str, j, j + 4) = " of "
              /\ IsDigit(CharAt(str, j + 4))

\* /^\d+ of \d+$/
MatchesNOfM(str) ==
    \E j \in DigitRunEnds(str, 0) :
        /\ slice(str, j, j + 4) = " of "
        /\ Len(str) > j + 4
        /\ AllDigits(slice(str, j + 4, Len(str)))

\* /^\d{4} \d{7} \d{4}-\d{4}/
MatchesDocumentCode(str) ==
    /\ Len(str) >= 22
    /\ AllDigits(slice(str, 0, 4)) /\ CharAt(str, 4) = " "
    /\ AllDigits(slice(str, 5, 12)) /\ CharAt(str, 12) = " "
    /\ AllDigits(slice(str, 13, 17)) /\ CharAt(str, 17) = "-"
    /\ AllDigits(slice(str, 18, 22))

isPageFooterOrHeader(txt) ==
    LET lines == split(trim(txt))
        content == toLowerCase(txt)
    IN  IF Len(lines) > 3 THEN FALSE
        ELSE \/ MatchesPageNOfM(content)
             \/ MatchesNOfM(trim(content))
             \/ includes(content, "member fdic")
             \/ includes(content, "continued on next page")
             \/ startsWith(content, "statement date:")
             \/ startsWith(content, "account number:")
             \/ MatchesDocumentCode(content)

\* The header texts of analyzeTableStructure: cells.filter(c => c.text)
\* .map(c => c.text.toLowerCase()).
RECURSIVE headerTexts(_)
headerTexts(cells) ==
    IF Len(cells) = 0 THEN <<>>
    ELSE IF Truthy(Head(cells)) THEN <<toLowerCase(Head(cells))>> \o headerTexts(Tail(cells))
    ELSE headerTexts(Tail(cells))

\* One pass of the loop over the header texts.
AnalyzeHeader(metadata, txt) ==
    LET isDate == includes(txt, "date")
        isDesc == \E w \in {"description", "concept", "detail"} : includes(txt, w)
        isDebit == \E w \in {"debit", "withdrawal", "out", "payment"} : includes(txt, w)
        isCredit == \E w \in {"credit", "deposit", "in", "income"} : includes(txt, w)
    IN  [has_transactions |-> metadata.has_transactions \/ isDate \/ isDebit \/ isCredit,
         debit_columns |-> IF isDebit THEN Append(metadata.debit_columns, txt)
                           ELSE metadata.debit_columns,
         credit_columns |-> IF isCredit THEN Append(metadata.credit_columns, txt)
                            ELSE metadata.credit_columns,
         date_column |-> IF isDate THEN txt ELSE metadata.date_column,
         description_column |-> IF isDesc THEN txt ELSE metadata.description_column]

RECURSIVE AnalyzeHeaders(_, _)
AnalyzeHeaders(metadata, texts) ==
    IF Len(texts) = 0 THEN metadata
    ELSE AnalyzeHeaders(AnalyzeHeader(metadata, Head(texts)), Tail(texts))

\* /a.*b/ on str: a, then b later on the same line.
MatchesInOrder(str, a, b) ==
    \E i \in 0..(Len(str) - 1) :
        /\ slice(str, i, i + Len(a)) = a
        /\ \E j \in (i + Len(a))..(Len(str) - 1) :
              /\ slice(str, j, j + Len(b)) = b
              /\ \A k \in (i + Len(a))..(j - 1) : CharAt(str, k) \notin {"\n", "\r"}

analyzeTableStructure(cells, content) ==
    LET metadata == AnalyzeHeaders(
            [has_transactions |-> FALSE, debit_columns |-> <<>>,
             credit_columns |-> <<>>, date_column |-> Null,
             description_column |-> Null],
            headerTexts(cells))
        lc == toLowerCase(content)
    IN  IF \/ MatchesInOrder(lc, "debits", "credits")
           \/ MatchesInOrder(lc, "withdrawals", "deposits")
        THEN [metadata EXCEPT !.has_transactions = TRUE]
        ELSE metadata

Months == {"jan", "feb", "mar", "apr", "may", "jun", "jul", "aug", "sep", "oct", "nov", "dec"}

\* /\d{1,2}[\/\-]\d{1,2}/ matched at offset i of str.
NumericDateAt(str, i) ==
    \E n \in {1, 2} :
        /\ Len(str) >= i + n + 2
        /\ AllDigits(slice(str, i, i + n))
        /\ CharAt(str, i + n) \in {"/", "-"}
        /\ IsDigit(CharAt(str, i + n + 1))

\* /\b(jan|feb|...|dec|\d{1,2}[\/\-]\d{1,2})/i.test(line)
IsTransactionLine(line) ==
    \E i \in 0..(Len(line) - 1) :
        /\ i = 0 \/ ~IsWordChar(CharAt(line, i - 1))
        /\ \/ toLowerCase(slice(line, i, i + 3)) \in Months
           \/ NumericDateAt(line, i)

\* The number of elements of lines that are transaction lines.
CountTransactionLines(lines) ==
    Cardinality({k \in 1..Len(lines) : IsTransactionLine(lines[k])})

\* page_fragments.sort((a, b) => a.reading_order - b.reading_order): the
\* array sorted in place (a stable sort); k-th comes the fragment with k - 1
\* fragments before it in (reading_order, position) order.
sortByReadingOrder(frags) ==
    LET before(i, j) ==
            \/ frags[i].reading_order < frags[j].reading_order
            \/ frags[i].reading_order = frags[j].reading_order /\ i < j
        rank(j) == Cardinality({i \in 1..Len(frags) : before(i, j)})
    IN  [k \in 1..Len(frags) |-> frags[CHOOSE j \in 1..Len(frags) : rank(j) = k - 1]]

\* The body of the loop over a page's fragments, for one fragment: acc is
\* [content, metadata], the page's content and metadata so far.
ExtractFragment(acc, fragment) ==
    IF fragment.fragment_type = "table"
    THEN LET tableContent ==
                 IF Truthy(fragment.content) THEN fragment.content
                 ELSE IF Truthy(fragment.markdown) THEN fragment.markdown
                 ELSE ""
             tableMeta == analyzeTableStructure(fragment.cells, tableContent)
             pm == acc.metadata
             merged ==
                 [has_transactions |-> TRUE,
                  debit_columns |-> Dedupe(pm.debit_columns \o tableMeta.debit_columns),
                  credit_columns |-> Dedupe(pm.credit_columns \o tableMeta.credit_columns),
                  date_column |-> IF Truthy(tableMeta.date_column)
                                  THEN tableMeta.date_column ELSE pm.date_column,
                  description_column |-> IF Truthy(tableMeta.description_column)
                                         THEN tableMeta.description_column
                                         ELSE pm.description_column,
                  transaction_count |-> pm.transaction_count
                                        + CountTransactionLines(split(tableContent))]
         IN  [content |-> acc.content \o TableMarker \o tableContent,
              metadata |-> IF tableMeta.has_transactions THEN merged ELSE pm]
    ELSE IF fragment.fragment_type = "text"
    THEN LET textContent == IF Truthy(fragment.content) THEN fragment.content ELSE ""
         IN  IF trim(textContent) # "" /\ ~isPageFooterOrHeader(textContent)
             THEN [acc EXCEPT !.content = acc.content \o "\n" \o textContent]
             ELSE acc
    ELSE acc

RECURSIVE ExtractFragments(_, _)
ExtractFragments(acc, frags) ==
    IF Len(frags) = 0 THEN acc
    ELSE ExtractFragments(ExtractFragment(acc, Head(frags)), Tail(frags))

\* Lines 84-125: the content and metadata extracted from a page that has
\* fragments: [content, metadata].
ExtractPage(page) ==
    LET acc == ExtractFragments([content |-> "", metadata |-> EmptyMetadata],
                                sortByReadingOrder(page.page_fragments))
    IN  [acc EXCEPT !.content = trim(acc.content)]

\* The merge that takes the transaction_count of the source.
mergeMetadata_SourceCount(target, source) ==
    [has_transactions |-> target.has_transactions \/ source.has_transactions,
     debit_columns |-> Dedupe(target.debit_columns \o source.debit_columns),
     credit_columns |-> Dedupe(target.credit_columns \o source.credit_columns),
     date_column |-> target.date_column,
     description_column |-> target.description_column,
     transaction_count |-> source.transaction_count]

\* The merge that leaves has_transactions as the target has it.
mergeMetadata_TargetFlag(target, source) ==
    [has_transactions |-> target.has_transactions,
     debit_columns |-> Dedupe(target.debit_columns \o source.debit_columns),
     credit_columns |-> Dedupe(target.credit_columns \o source.credit_columns),
     date_column |-> target.date_column,
     description_column |-> target.description_column,
     transaction_count |-> target.transaction_count + source.transaction_count]

\* Lines 228-241: target after mergeMetadata(target, source), which changes
\* target in place.
mergeMetadata(target, source) ==
    [has_transactions |-> target.has_transactions \/ source.has_transactions,
     debit_columns |-> Dedupe(target.debit_columns \o source.debit_columns),
     credit_columns |-> Dedupe(target.credit_columns \o source.credit_columns),
     date_column |-> IF Truthy(source.date_column) /\ ~Truthy(target.date_column)
                     THEN source.date_column ELSE target.date_column,
     description_column |-> IF Truthy(source.description_column)
                               /\ ~Truthy(target.description_column)
                            THEN source.description_column
                            ELSE target.description_column,
     transaction_count |-> target.transaction_count + source.transaction_count]

---------------------------------------------------------------------------
(* Chunks.                                                                 *)

\* `chunk_${n}`
ChunkId(n) == "chunk_" \o ToString(n)

\* A chunk as extractFromText and extractFromHtml push it: a record with
\* these fields only.
Chunk(n, len, table, txt) ==
    [chunk_id |-> ChunkId(n),
     chunk_number |-> n,
     char_len |-> len,
     has_table |-> table,
     chunk_text |-> txt]

\* A chunk as the fallback of extractFromParsedDocument pushes it.
BankChunk(bank, n, len, table, txt) ==
    [bank_name |-> bank,
     chunk_id |-> ChunkId(n),
     chunk_number |-> n,
     char_len |-> len,
     has_table |-> table,
     chunk_text |-> txt]

\* A chunk as the page loop of extractFromParsedDocument pushes it.
PageChunk(bank, n, range, len, table, txt, meta) ==
    [bank_name |-> bank,
     chunk_id |-> ChunkId(n),
     chunk_number |-> n,
     page_range |-> range,
     char_len |-> len,
     has_table |-> table,
     chunk_text |-> txt,
     metadata |-> meta]

\* The chunks left with the total_chunks they were pushed with.
withTotalChunks_Stale(cs) ==
    [i \in 1..Len(cs) |-> ("total_chunks" :> 0) @@ cs[i]]

\* chunks.forEach(c => c.total_chunks = chunks.length): the field is set,
\* or added to a chunk that has none.
withTotalChunks(cs) ==
    [i \in 1..Len(cs) |-> ("total_chunks" :> Len(cs)) @@ cs[i]]

\* startPageNum === endPageNum ? `${startPageNum}` : `${startPageNum}-${endPageNum}`
PageRange(first, last) ==
    IF first = last THEN ToString(first)
    ELSE ToString(first) \o "-" \o ToString(last)

\* /\|.*\|/.test(str) || /\t/.test(str)
LooksLikeTable(str) == MatchesInOrder(str, "|", "|") \/ includes(str, "\t")

---------------------------------------------------------------------------
(* splitTableLikeBlocks and extractFromText.                               *)

\* str holds n digits from offset i on.
DigitsAt(str, i, n) == i + n <= Len(str) /\ AllDigits(slice(str, i, i + n))

\* The number of whitespace characters str starts with: where ^\s* ends.
LeadingSpaces(str) ==
    SetMax({n \in 0..Len(str) : \A k \in 0..(n - 1) : IsSpace(CharAt(str, k))})

\* /^\s*\d{2}[\/\-]\d{2}(?:[\/\-]\d{2,4})?\s+/
MatchesDateRow(line) ==
    LET p == LeadingSpaces(line)
    IN  /\ DigitsAt(line, p, 2)
        /\ CharAt(line, p + 2) \in {"/", "-"}
        /\ DigitsAt(line, p + 3, 2)
        /\ \/ IsSpace(CharAt(line, p + 5))
           \/ /\ CharAt(line, p + 5) \in {"/", "-"}
              /\ \E n \in 2..4 : /\ DigitsAt(line, p + 6, n)
                                 /\ IsSpace(CharAt(line, p + 6 + n))

\* str[i, j) is a non-empty run of characters that are all whitespace
\* (space = TRUE) or all non-whitespace (space = FALSE).
IsRun(str, i, j, space) ==
    /\ i < j /\ j <= Len(str)
    /\ \A k \in i..(j - 1) : IsSpace(CharAt(str, k)) = space

\* /(\s{2,}[^\s]+\s{2,}[^\s]+)/: two columns, each after two or more
\* whitespace characters.
MatchesSpacedColumns(line) ==
    \E i \in 0..Len(line) : \E j \in (i + 2)..Len(line) :
        /\ IsRun(line, i, j, TRUE)
        /\ \E k \in (j + 1)..Len(line) :
              /\ IsRun(line, j, k, FALSE)
              /\ \E l \in (k + 2)..(Len(line) - 1) :
                    /\ IsRun(line, k, l, TRUE)
                    /\ ~IsSpace(CharAt(line, l))

\* /^\s*(DATE|DESCRIPTION|AMOUNT)\b/i
MatchesColumnTitle(line) ==
    LET p == LeadingSpaces(line)
    IN  \E w \in {"date", "description", "amount"} :
            /\ toLowerCase(slice(line, p, p + Len(w))) = w
            /\ ~IsWordChar(CharAt(line, p + Len(w)))

isTableRow(line) ==
    \/ MatchesDateRow(line)
    \/ includes(line, "\t")
    \/ MatchesSpacedColumns(line)
    \/ MatchesColumnTitle(line)

\* curType of a loop that has seen no line yet.
NoType == "null"

\* A flush that keeps a blank buffer as a block.
flush_KeepBlank(blocks, curType, buf) ==
    IF Len(buf) = 0 THEN blocks
    ELSE Append(blocks, [type |-> IF curType = "null" THEN "text" ELSE curType,
                         content |-> trim(join(buf, "\n"))])

\* flush(): the blocks with the buffer's block added, unless the buffer is
\* empty or blank; the buffer is emptied by the caller.
flush(blocks, curType, buf) ==
    LET content == trim(join(buf, "\n"))
    IN  IF Len(buf) = 0 \/ content = "" THEN blocks
        ELSE Append(blocks, [type |-> IF curType = NoType THEN "text" ELSE curType,
                             content |-> content])

\* One pass of the loop over the lines: st is [curType, buf, blocks].
BlockStep(st, l) ==
    LET rowType == IF isTableRow(l) THEN "table" ELSE "text"
    IN  IF st.curType = NoType \/ st.curType = rowType
        THEN [st EXCEPT !.curType = rowType, !.buf = Append(st.buf, l)]
        ELSE [curType |-> rowType,
              buf |-> <<l>>,
              blocks |-> flush(st.blocks, st.curType, st.buf)]

RECURSIVE BlockLoop(_, _)
BlockLoop(st, lines) ==
    IF Len(lines) = 0 THEN st
    ELSE BlockLoop(BlockStep(st, Head(lines)), Tail(lines))

\* Two blocks of one type are merged while their lengths add up to less
\* than this.
MergeLimit == 2000

\* The loop that merges nothing.
MergeBlocks_Never(merged, blocks) == merged \o blocks

\* The loop that merges adjacent blocks of the same type.
RECURSIVE MergeBlocks(_, _)
MergeBlocks(merged, blocks) ==
    IF Len(blocks) = 0 THEN merged
    ELSE LET b == Head(blocks)
             n == Len(merged)
         IN  IF /\ n > 0
                /\ merged[n].type = b.type
                /\ Len(merged[n].content) + Len(b.content) < MergeLimit
             THEN MergeBlocks(
                     [merged EXCEPT ![n].content = merged[n].content \o "\n" \o b.content],
                     Tail(blocks))
             ELSE MergeBlocks(Append(merged, b), Tail(blocks))

splitTableLikeBlocks(txt) ==
    LET st == BlockLoop([curType |-> NoType, buf |-> <<>>, blocks |-> <<>>],
                        splitLines(txt))
    IN  MergeBlocks(<<>>, flush(st.blocks, st.curType, st.buf))

\* The chunks pushed for the segments segs, numbered from n, has_table as
\* given.
SegmentChunks(segs, n, table) ==
    [i \in 1..Len(segs) |-> Chunk(n + i - 1, Len(segs[i]), table, segs[i])]

\* The loop over the blocks of extractFromText: the chunks cs with those of
\* the blocks added.
RECURSIVE BlockChunks(_, _, _)
BlockChunks(cs, blocks, m) ==
    IF Len(blocks) = 0 THEN cs
    ELSE BlockChunks(
            cs \o SegmentChunks(chunkify(Head(blocks).content, m), Len(cs) + 1,
                                Head(blocks).type = "table"),
            Tail(blocks), m)

---------------------------------------------------------------------------
(* detectBankName, and the serialisation it is applied to.                 *)

\* BANK_NAMES of bankNames.ts, in the order the documentation names them.
BANK_NAMES == <<"Bank of America", "Chase", "Wells Fargo">>

\* The loop that looks for the names as they are spelled.
RECURSIVE FirstBank_AsSpelled(_, _)
FirstBank_AsSpelled(hay, k) ==
    IF k > Len(BANK_NAMES) THEN "Unknown"
    ELSE IF includes(hay, BANK_NAMES[k]) THEN BANK_NAMES[k]
    ELSE FirstBank_AsSpelled(hay, k + 1)

\* The loop of detectBankName, from the k-th name on.
RECURSIVE FirstBank(_, _)
FirstBank(hay, k) ==
    IF k > Len(BANK_NAMES) THEN "Unknown"
    ELSE IF includes(hay, toLowerCase(BANK_NAMES[k])) THEN BANK_NAMES[k]
    ELSE FirstBank(hay, k + 1)

detectBankName(fullText) == FirstBank(toLowerCase(fullText), 1)

\* The characters of the serialised document that detectBankName is given.
StringifyPrefix == 5000

\* str as JSON.stringify writes it between the quotes (by halving).
RECURSIVE Escaped(_)
Escaped(str) ==
    IF Len(str) = 0 THEN ""
    ELSE IF Len(str) = 1
    THEN CASE str = "\n" -> "\\n"
           [] str = "\t" -> "\\t"
           [] str = "\r" -> "\\r"
           [] str = "\"" -> "\\\""
           [] str = "\\" -> "\\\\"
           [] OTHER -> str
    ELSE LET h == Len(str) \div 2
         IN  Escaped(SubSeq(str, 1, h)) \o Escaped(SubSeq(str, h + 1, Len(str)))

JsonString(str) == "\"" \o Escaped(str) \o "\""

\* "key":value
JsonMember(key, value) == JsonString(key) \o ":" \o value

JsonObject(members) == "{" \o join(members, ",") \o "}"

JsonArray(elements) == "[" \o join(elements, ",") \o "]"

\* JSON.stringify of a fragment: the fields a fragment of the model has,
\* undefined ones left out.
JsonFragment(f) ==
    JsonObject(
        <<JsonMember("fragment_type", JsonString(f.fragment_type)),
          JsonMember("reading_order", ToString(f.reading_order)),
          JsonMember("content", JsonObject(
              (IF f.content # Undefined
               THEN <<JsonMember("content", JsonString(f.content))>> ELSE <<>>)
              \o (IF f.markdown # Undefined
                  THEN <<JsonMember("markdown", JsonString(f.markdown))>> ELSE <<>>)
              \o (IF Len(f.cells) > 0
                  THEN <<JsonMember("cells", JsonArray(
                           [k \in 1..Len(f.cells) |->
                               JsonObject(<<JsonMember("text", JsonString(f.cells[k]))>>)]))>>
                  ELSE <<>>)))>>)

JsonPage(page) ==
    JsonObject(
        (IF page.page_number # 0
         THEN <<JsonMember("page_number", ToString(page.page_number))>> ELSE <<>>)
        \o (IF "page_fragments" \in DOMAIN page
            THEN <<JsonMember("page_fragments", JsonArray(
                     [k \in 1..Len(page.page_fragments) |->
                         JsonFragment(page.page_fragments[k])]))>>
            ELSE <<>>))

\* JSON.stringify(parsedDoc), for a document of the model.
stringify(d) ==
    JsonObject(
        (IF "pages" \in DOMAIN d
         THEN <<JsonMember("pages", JsonArray(
                  [k \in 1..Len(d.pages) |-> JsonPage(d.pages[k])]))>>
         ELSE <<>>)
        \o (IF "chunks" \in DOMAIN d
            THEN <<JsonMember("chunks", JsonArray(
                     [k \in 1..Len(d.chunks) |->
                         JsonObject(<<JsonMember("content",
                                                 JsonString(d.chunks[k].content))>>)]))>>
            ELSE <<>>)
        \o (IF "labels" \in DOMAIN d
            THEN <<JsonMember("labels", JsonObject(
                     <<JsonMember("bank", JsonString(d.labels.bank))>>))>>
            ELSE <<>>))

\* The tablesDetected of extractFromParsedDocument: the table fragments of
\* the pages, 0 for a document without pages.
RECURSIVE CountTablesFrom(_, _)
CountTablesFrom(pages, k) ==
    IF k > Len(pages) THEN 0
    ELSE (IF "page_fragments" \in DOMAIN pages[k]
          THEN Len(SelectSeq(pages[k].page_fragments,
                             LAMBDA f : f.fragment_type = "table"))
          ELSE 0)
         + CountTablesFrom(pages, k + 1)

CountTables(d) == IF "pages" \in DOMAIN d THEN CountTablesFrom(d.pages, 1) ELSE 0

---------------------------------------------------------------------------
(* extractFromParsedDocument, one page per action.                         *)
(*                                                                         *)
(* A document is a record with the fields pages (an array of pages) and    *)
(* chunks (an array of [content]), either of which may be missing.  A page *)
(* is a record with page_number and, unless the page has none, the field   *)
(* page_fragments (an array of fragments); page_number 0 stands for a page *)
(* without that field (page.page_number || pageIdx + 1 takes both the same *)
(* way).  A fragment is [fragment_type, reading_order, content, markdown,  *)
(* cells]: content and markdown stand for content.content and              *)
(* content.markdown, cells for the texts of content.cells.                 *)

\* obj.field is set (an array, which is truthy even when empty).
Has(obj, field) == field \in DOMAIN obj

HasPages == Has(parsedDoc, "pages")

\* The page of this iteration.
CurrentPage == parsedDoc.pages[pageIdx + 1]

\* page.page_number || pageIdx + 1
PageNumber(page, i) == IF page.page_number # 0 THEN page.page_number ELSE i + 1

InPageLoop ==
    /\ op = "parsed" /\ pc = "loop"
    /\ HasPages /\ pageIdx < Len(parsedDoc.pages)

\* The chunk both flushes push for the buffer.
BufferChunk(n, first, last, content, metadata) ==
    PageChunk(bankName, n, PageRange(first, last), Len(content),
              metadata.has_transactions, content, metadata)

\* Lines 165-177: the chunks with the buffer flushed when this is the last
\* page and the buffer is not blank.
FlushIfLast(cs, n, first, last, content, metadata) ==
    IF pageIdx = Len(parsedDoc.pages) - 1 /\ trim(content) # ""
    THEN Append(cs, BufferChunk(n, first, last, content, metadata))
    ELSE cs

\* The document after page_fragments.sort(...) of the current page.
SortedDoc ==
    [parsedDoc EXCEPT !.pages[pageIdx + 1].page_fragments =
        sortByReadingOrder(CurrentPage.page_fragments)]

UnchangedButParsed ==
    UNCHANGED <<op, max, s, start, out, text, html, doc, input, res,
                tableTransactions>>

\* The document and the locals of the page loop.
loopVars ==
    <<parsedDoc, pageIdx, pageContent, pageMetadata, currentChunkContent,
      currentChunkMetadata, startPageNum, endPageNum>>

\* const chunks = []; let idx = 1; const bankName = parsedDoc.labels?.bank ||
\* detectBankName(JSON.stringify(parsedDoc).substring(0, 5000)); and the
\* locals of the page loop.
ParsedEnter ==
    /\ op = "parsed" /\ pc = "call"
    /\ bankName' =
          IF Has(parsedDoc, "labels") /\ Truthy(parsedDoc.labels.bank)
          THEN parsedDoc.labels.bank
          ELSE detectBankName(slice(stringify(parsedDoc), 0, StringifyPrefix))
    /\ idx' = 1 /\ chunks' = <<>>
    /\ pageIdx' = 0
    /\ currentChunkContent' = ""
    /\ currentChunkMetadata' = EmptyMetadata
    /\ startPageNum' = 1 /\ endPageNum' = 1
    /\ pc' = "loop"
    /\ UNCHANGED <<parsedDoc, pageContent, pageMetadata, tablesDetected>>
    /\ UnchangedButParsed

\* if (!page.page_fragments) continue;
PageSkip ==
    /\ InPageLoop
    /\ ~Has(CurrentPage, "page_fragments")
    /\ pageIdx' = pageIdx + 1
    /\ UNCHANGED <<pc, parsedDoc, pageContent, pageMetadata, currentChunkContent,
                   currentChunkMetadata, startPageNum, endPageNum, idx, chunks,
                   bankName, tablesDetected>>
    /\ UnchangedButParsed

\* Lines 84-125: the fragments are sorted in place, and the page's content
\* and metadata are extracted from them.
PageExtract ==
    /\ InPageLoop
    /\ Has(CurrentPage, "page_fragments")
    /\ LET page == ExtractPage(CurrentPage)
       IN  pageContent' = page.content /\ pageMetadata' = page.metadata
    /\ parsedDoc' = SortedDoc
    /\ pc' = "page"
    /\ UNCHANGED <<pageIdx, currentChunkContent, currentChunkMetadata,
                   startPageNum, endPageNum, idx, chunks, bankName,
                   tablesDetected>>
    /\ UnchangedButParsed

\* Lines 127-177, the rest of the iteration, once the page is extracted.
InPageBody == op = "parsed" /\ pc = "page"

\* (currentChunkContent.length + pageContent.length) > max
wouldExceedMax == Len(currentChunkContent) + Len(pageContent) > max

\* page.page_number || pageIdx + 1, of the page of this iteration.
pageNum == PageNumber(CurrentPage, pageIdx)

\* The buffer is empty: the page starts a chunk.
PageSeed ==
    /\ InPageBody
    /\ Len(currentChunkContent) = 0
    /\ currentChunkContent' = pageContent
    /\ currentChunkMetadata' = pageMetadata
    /\ startPageNum' = pageNum
    /\ endPageNum' = pageNum
    /\ chunks' = FlushIfLast(chunks, idx, pageNum, pageNum, pageContent,
                             pageMetadata)
    /\ idx' = idx
    /\ pageIdx' = pageIdx + 1
    /\ pc' = "loop"
    /\ UNCHANGED <<parsedDoc, pageContent, pageMetadata, bankName,
                   tablesDetected>>
    /\ UnchangedButParsed

\* The page is added to the buffer.
PageAppend ==
    /\ InPageBody
    /\ Len(currentChunkContent) # 0
    /\ ~wouldExceedMax
    /\ LET content == currentChunkContent \o PageBreak \o pageContent
           metadata == mergeMetadata(currentChunkMetadata, pageMetadata)
       IN  /\ currentChunkContent' = content
           /\ currentChunkMetadata' = metadata
           /\ chunks' = FlushIfLast(chunks, idx, startPageNum, pageNum, content,
                                    metadata)
    /\ endPageNum' = pageNum
    /\ startPageNum' = startPageNum
    /\ idx' = idx
    /\ pageIdx' = pageIdx + 1
    /\ pc' = "loop"
    /\ UNCHANGED <<parsedDoc, pageContent, pageMetadata, bankName,
                   tablesDetected>>
    /\ UnchangedButParsed

\* The page would exceed max: the buffer is flushed and the page starts the
\* next chunk.
PageFlush ==
    /\ InPageBody
    /\ Len(currentChunkContent) # 0
    /\ wouldExceedMax
    /\ currentChunkContent' = pageContent
    /\ currentChunkMetadata' = pageMetadata
    /\ startPageNum' = pageNum
    /\ endPageNum' = pageNum
    /\ chunks' = FlushIfLast(
           Append(chunks, BufferChunk(idx, startPageNum, endPageNum,
                                      currentChunkContent, currentChunkMetadata)),
           idx + 1, pageNum, pageNum, pageContent, pageMetadata)
    /\ idx' = idx + 1
    /\ pageIdx' = pageIdx + 1
    /\ pc' = "loop"
    /\ UNCHANGED <<parsedDoc, pageContent, pageMetadata, bankName,
                   tablesDetected>>
    /\ UnchangedButParsed

\* The page loop is over, or the document has no pages array.
AfterPageLoop ==
    /\ op = "parsed" /\ pc = "loop"
    /\ HasPages => pageIdx >= Len(parsedDoc.pages)

\* chunks.length === 0 && parsedDoc.chunks && Array.isArray(parsedDoc.chunks)
UsesFallback == Len(chunks) = 0 /\ Has(parsedDoc, "chunks")

\* Lines 183-189: the contents of the pre-chunked array, each after "\n\n",
\* trimmed.
RECURSIVE ConsolidateFrom(_, _)
ConsolidateFrom(acc, cs) ==
    IF Len(cs) = 0 THEN acc
    ELSE ConsolidateFrom(
            acc \o "\n\n" \o (IF Truthy(Head(cs).content) THEN Head(cs).content ELSE ""),
            Tail(cs))

consolidatedContent(cs) == trim(ConsolidateFrom("", cs))

\* The chunks the fallback pushes for the segments segs, numbered from n.
FallbackChunks(segs, n) ==
    [i \in 1..Len(segs) |->
        BankChunk(bankName, n + i - 1, Len(segs[i]), LooksLikeTable(segs[i]),
                  segs[i])]

\* The fallback, the consolidated content within max: one chunk.
ParsedFallbackWhole ==
    /\ AfterPageLoop
    /\ UsesFallback
    /\ LET content == consolidatedContent(parsedDoc.chunks)
       IN  /\ Len(content) <= max
           /\ chunks' = withTotalChunks(
                  Append(chunks, BankChunk(bankName, idx, Len(content),
                                           LooksLikeTable(content), content)))
    /\ idx' = idx
    /\ pc' = "done"
    /\ tablesDetected' = CountTables(parsedDoc)
    /\ UNCHANGED <<loopVars, bankName>>
    /\ UnchangedButParsed

\* The fallback, the consolidated content beyond max: chunkify's segments.
ParsedFallbackSplit ==
    /\ AfterPageLoop
    /\ UsesFallback
    /\ LET content == consolidatedContent(parsedDoc.chunks)
           segs == chunkify(content, max)
       IN  /\ Len(content) > max
           /\ chunks' = withTotalChunks(
                  chunks \o FallbackChunks(segs, idx))
           /\ idx' = idx + Len(segs)
    /\ pc' = "done"
    /\ tablesDetected' = CountTables(parsedDoc)
    /\ UNCHANGED <<loopVars, bankName>>
    /\ UnchangedButParsed

\* No fallback: total_chunks is set and the chunks are returned.
ParsedReturn ==
    /\ AfterPageLoop
    /\ ~UsesFallback
    /\ chunks' = withTotalChunks(chunks)
    /\ pc' = "done"
    /\ tablesDetected' = CountTables(parsedDoc)
    /\ UNCHANGED <<loopVars, bankName, idx>>
    /\ UnchangedButParsed

NextParsed ==
    \/ ParsedEnter
    \/ PageSkip
    \/ PageExtract
    \/ PageSeed
    \/ PageAppend
    \/ PageFlush
    \/ ParsedFallbackWhole
    \/ ParsedFallbackSplit
    \/ ParsedReturn

---------------------------------------------------------------------------
(* The parsed documents extractFromParsedDocument is run on.               *)

TextFragment(order, content) ==
    [fragment_type |-> "text", reading_order |-> order, content |-> content,
     markdown |-> Undefined, cells |-> <<>>]

TableFragment(order, content, cells) ==
    [fragment_type |-> "table", reading_order |-> order, content |-> content,
     markdown |-> Undefined, cells |-> cells]

\* The kinds of page: 1 has no page_fragments field; 2 holds a short text; 3
\* holds only a footer, so that nothing is extracted from it; 4 holds a
\* table and a text, the text first in the array and second in reading
\* order; 5 holds a longer text.
PageKinds == 1..5

FragmentsOfKind(k) ==
    CASE k = 1 -> <<>>
      [] k = 2 -> <<TextFragment(1, "abc")>>
      [] k = 3 -> <<TextFragment(1, "Page 1 of 2")>>
      [] k = 4 -> <<TextFragment(2, "x y"),
                    TableFragment(1, "01/15 a 1", <<"Date", "Debit">>)>>
      [] k = 5 -> <<TextFragment(1, "abcd. fgh")>>

\* The pages with several tables: 1 holds two tables whose headers name
\* different date columns; 2 holds a table whose header names only a
\* description column, then one with a date, a debit and another description
\* column; 3 holds one table with the same debit header twice.
MergeKinds == 1..3

MergeFragments(k) ==
    CASE k = 1 -> <<TableFragment(1, "01/15 a 1", <<"Date", "Debit">>),
                    TableFragment(2, "01/16 b 2\nJan 5 c", <<"Posting Date", "Credit">>)>>
      [] k = 2 -> <<TableFragment(1, "d", <<"Detail">>),
                    TableFragment(2, "Feb 7 e", <<"Value Date", "Debit", "Concept">>)>>
      [] k = 3 -> <<TableFragment(1, "01/17 f 3", <<"Debit", "Debit", "Description">>)>>

\* The page of the scenario: 5,000 characters.
ScenarioPageLen == 5000

ScenarioMax == 12000

ScenarioFragments == <<TextFragment(1, Rep("a", ScenarioPageLen))>>

\* The pre-chunked arrays: none, an empty one, and one whose first content
\* is blank.
ChunkArrays == 1..3

ChunksOfKind(k) ==
    CASE k = 1 -> <<>>
      [] k = 2 -> <<>>
      [] k = 3 -> <<[content |-> " "], [content |-> "ab. cd"]>>

\* The ways the pages of a document carry page_number: "none", no page has
\* one; "from5", the pages are numbered 5, 6, ...; "down", the numbers
\* decrease in document order; "from0", the pages are numbered 0, 1, ...
Numberings == {"none", "from5", "down", "from0"}

\* The page_number of the i-th page of a document (0: the page has none, or
\* has the number 0).
PageNumbered(i, numbering) ==
    CASE numbering = "none" -> 0
      [] numbering = "from5" -> 4 + i
      [] numbering = "down" -> 10 - i
      [] numbering = "from0" -> i - 1

\* The pages of kinds kinds[1], ..., kinds[n], numbered by numbering.
PagesOfKinds(kinds, n, numbering) ==
    [i \in 1..n |->
        IF kinds[i] = 1 THEN [page_number |-> PageNumbered(i, numbering)]
        ELSE [page_number |-> PageNumbered(i, numbering),
              page_fragments |-> FragmentsOfKind(kinds[i])]]

\* The document with these pages and the pre-chunked array of kind c.
DocumentOf(pages, c) ==
    IF c = 1 THEN [pages |-> pages]
    ELSE [pages |-> pages, chunks |-> ChunksOfKind(c)]

ParsedInputs ==
    {<<DocumentOf(PagesOfKinds(kinds, n, numbering), 1), m>> :
        n \in 0..MaxPages, kinds \in [1..MaxPages -> PageKinds],
        numbering \in Numberings, m \in {5, 30, 100}}
    \cup
    {<<DocumentOf(PagesOfKinds(kinds, n, "none"), c), m>> :
        n \in 0..MaxPages, kinds \in [1..MaxPages -> PageKinds],
        c \in ChunkArrays, m \in {5, 30, 100}}
    \cup
    {<<[chunks |-> ChunksOfKind(c)], m>> :
        c \in ChunkArrays \ {1}, m \in {5, 30, 100}}
    \cup
    {<<[chunks |-> <<[content |-> "Your Chase account summary"]>>], m>> :
        m \in {5, 30, 100}}
    \cup
    {<<[chunks |-> <<[content |-> "Your Chase account summary"]>>,
        labels |-> [bank |-> "Amerant"]], m>> : m \in {5, 30, 100}}
    \cup
    {<<[pages |-> [i \in 1..n |-> [page_number |-> 0,
                                   page_fragments |-> ScenarioFragments]]],
       ScenarioMax>> : n \in 1..MaxPages}
    \cup
    {<<[pages |-> [i \in 1..n |-> [page_number |-> 0,
                                   page_fragments |-> MergeFragments(kinds[i])]]],
       m>> : n \in 1..2, kinds \in [1..2 -> MergeKinds], m \in {100, ScenarioMax}}

InitParsed ==
    /\ op = "parsed" /\ pc = "call"
    /\ \E in \in ParsedInputs : parsedDoc = in[1] /\ max = in[2]
    /\ pageIdx = 0
    /\ pageContent = "" /\ pageMetadata = EmptyMetadata
    /\ currentChunkContent = ""
    /\ currentChunkMetadata = EmptyMetadata
    /\ startPageNum = 1 /\ endPageNum = 1
    /\ NoResult
    /\ IdleChunkify /\ IdleText /\ IdleHtml /\ IdleProcess /\ IdleHandle
    /\ IdleTable

SpecParsed == InitParsed /\ [][NextParsed]_vars

ParsedDone == op = "parsed" /\ pc = "done"

---------------------------------------------------------------------------
(* extractFromText, applied in one action.                                 *)

\* Longest text handed to extractFromText, of those drawn from TextAlphabet.
MaxText == 5

\* The characters the short texts are made of: a tab makes a line a table
\* row.
TextAlphabet == {"a", " ", "\t", "\n"}

\* Texts whose lines match the other patterns of isTableRow.
TextSamples ==
    {"Date Amount\n01/15 pay 5.00\n\nnote. end",
     "a  b  c\r\nz",
     "01/02/2024 x\ny"}

\* Texts with two table blocks, apart by a blank line, at the limit of
\* merging.
LongTextSamples ==
    {Rep("a", MergeLimit - 1) \o "\t\n\n\tb",
     Rep("a", MergeLimit - 2) \o "\t\n\n\tb"}

TextInputs ==
    {<<w, m>> : w \in StringsUpTo(TextAlphabet, MaxText), m \in 1..3}
    \cup
    {<<w, m>> : w \in TextSamples, m \in {4, 12000}}
    \cup
    {<<w, 12000>> : w \in LongTextSamples}

InitText ==
    /\ op = "text" /\ pc = "call"
    /\ \E in \in TextInputs : text = in[1] /\ max = in[2]
    /\ NoResult
    /\ IdleChunkify /\ IdleParsed /\ IdleHtml /\ IdleProcess /\ IdleHandle
    /\ IdleTable

\* The number of table blocks: blocks.filter(b => b.type === "table").length
TableBlocks(blocks) == Len(SelectSeq(blocks, LAMBDA b : b.type = "table"))

extractFromText ==
    /\ op = "text" /\ pc = "call"
    /\ LET blocks == splitTableLikeBlocks(text)
           cs == BlockChunks(<<>>, blocks, max)
       IN  /\ chunks' = withTotalChunks(cs)
           /\ idx' = Len(cs) + 1
           /\ tablesDetected' = TableBlocks(blocks)
    /\ bankName' = detectBankName(text)
    /\ pc' = "done"
    /\ UNCHANGED <<op, max, s, start, out, loopVars, text, html, doc, input,
                   res,
                   tableTransactions>>

SpecText == InitText /\ [][extractFromText]_vars

TextDone == op = "text" /\ pc = "done"

---------------------------------------------------------------------------
(* extractFromHtml, applied in one action.                                 *)
(*                                                                         *)
(* The markup is what cheerio makes of it: [nonTable, tables], the text of *)
(* the document with its tables removed, and the tables, in document       *)
(* order, each the array of its rows, a row the array of the texts of its  *)
(* cells.                                                                  *)

\* str.replace(/\s+/g, " "): every run of whitespace becomes one space.
RECURSIVE collapseSpace(_)
collapseSpace(str) ==
    IF Len(str) = 0 THEN ""
    ELSE IF Len(str) = 1 THEN (IF IsSpace(str) THEN " " ELSE str)
    ELSE LET h == Len(str) \div 2
             left == collapseSpace(SubSeq(str, 1, h))
             right == collapseSpace(SubSeq(str, h + 1, Len(str)))
         IN  IF CharAt(left, Len(left) - 1) = " " /\ CharAt(right, 0) = " "
             THEN left \o SubSeq(right, 2, Len(right))
             ELSE left \o right

\* cols.join("\t") of the cells of a row, each cell trimmed and its
\* whitespace collapsed.
RowText(row) == join([k \in 1..Len(row) |-> collapseSpace(trim(row[k]))], "\t")

\* rows.join("\n").trim() of the rows of a table that have cells.
TableText(table) ==
    LET rows == SelectSeq(table, LAMBDA row : Len(row) > 0)
    IN  trim(join([k \in 1..Len(rows) |-> RowText(rows[k])], "\n"))

\* The tables array: the texts of the tables, the empty ones left out.
TableTexts(tables) == filterBoolean([k \in 1..Len(tables) |-> TableText(tables[k])])

\* The loop over the tables: the chunks cs with those of the tables added.
RECURSIVE TableChunks(_, _, _)
TableChunks(cs, tables, m) ==
    IF Len(tables) = 0 THEN cs
    ELSE TableChunks(
            cs \o SegmentChunks(chunkify(Head(tables), m), Len(cs) + 1, TRUE),
            Tail(tables), m)

\* The kinds of table: one row of two cells; two rows, a cell with
\* whitespace to trim and to collapse; one blank cell; one row without
\* cells.
TableKinds == 1..4

TableOfKind(k) ==
    CASE k = 1 -> <<<<"a", "b">>>>
      [] k = 2 -> <<<<"ab", " c \n d ">>, <<"e", "f">>>>
      [] k = 3 -> <<<<" ">>>>
      [] k = 4 -> <<<<>>>>

\* Most tables of a document.
MaxTables == 2

HtmlInputs ==
    {<<[nonTable |-> w,
        tables |-> [k \in 1..n |-> TableOfKind(kinds[k])]], m>> :
        w \in {"", " ", "a b", " ab.  cd\n e Chase"},
        n \in 0..MaxTables, kinds \in [1..MaxTables -> TableKinds],
        m \in {2, 4, 100}}

InitHtml ==
    /\ op = "html" /\ pc = "call"
    /\ \E in \in HtmlInputs : html = in[1] /\ max = in[2]
    /\ NoResult
    /\ IdleChunkify /\ IdleParsed /\ IdleText /\ IdleProcess /\ IdleHandle
    /\ IdleTable

extractFromHtml ==
    /\ op = "html" /\ pc = "call"
    /\ LET tables == TableTexts(html.tables)
           nonTable == trim(collapseSpace(html.nonTable))
           cs == TableChunks(SegmentChunks(chunkify(nonTable, max), 1, FALSE),
                             tables, max)
       IN  /\ chunks' = withTotalChunks(cs)
           /\ idx' = Len(cs) + 1
           /\ bankName' = detectBankName(trim(nonTable \o " " \o join(tables, " ")))
           /\ tablesDetected' = Len(tables)
    /\ pc' = "done"
    /\ UNCHANGED <<op, max, s, start, out, loopVars, text, html, doc, input,
                   res,
                   tableTransactions>>

SpecHtml == InitHtml /\ [][extractFromHtml]_vars

HtmlDone == op = "html" /\ pc = "done"

---------------------------------------------------------------------------
(* documentProcessor.ts: the transactions of a table.                      *)

\* /\b(w1|w2|...)\b/i.test(str), for words made of letters.
HasWord(str, words) ==
    \E lc \in {toLowerCase(str)} : \E w \in words : \E i \in 0..(Len(lc) - Len(w)) :
        /\ slice(lc, i, i + Len(w)) = w
        /\ ~IsWordChar(CharAt(lc, i - 1))
        /\ ~IsWordChar(CharAt(lc, i + Len(w)))

\* The length of the run of digits of str that starts at offset i.
RECURSIVE DigitRun(_, _)
DigitRun(str, i) ==
    IF IsDigit(CharAt(str, i)) THEN 1 + DigitRun(str, i + 1) ELSE 0

\* The length of the run of whitespace of str that starts at offset i.
RECURSIVE SpaceRun(_, _)
SpaceRun(str, i) ==
    IF IsSpace(CharAt(str, i)) THEN 1 + SpaceRun(str, i + 1) ELSE 0

\* Where /\b(Jan|...|Dec)\s+\d{1,2}\b/i matched at offset i of str ends, or
\* -1: a month, whitespace, one or two digits, and no word character next.
MonthDateEnd(str, i) ==
    IF /\ ~IsWordChar(CharAt(str, i - 1))
       /\ toLowerCase(slice(str, i, i + 3)) \in Months
       /\ SpaceRun(str, i + 3) > 0
    THEN Once(i + 3 + SpaceRun(str, i + 3), LAMBDA p :
         Once(DigitRun(str, p), LAMBDA n :
            IF n \in {1, 2} /\ ~IsWordChar(CharAt(str, p + n)) THEN p + n ELSE -1))
    ELSE -1

\* Where /\b\d{1,2}[\/-]\d{1,2}(?:[\/-]\d{2,4})?\b/ matched at offset i of
\* str ends, or -1.  The matcher tries the longer alternatives first: two
\* digits before one, the year before no year, a longer year before a
\* shorter one.
NumericDateEnd(str, i) ==
    LET n1 == DigitRun(str, i)
        p == i + n1 + 1
        ends(n2) ==
            {p + n2 + 1 + y : y \in {y \in 2..4 :
                /\ CharAt(str, p + n2) \in {"/", "-"}
                /\ DigitsAt(str, p + n2 + 1, y)
                /\ ~IsWordChar(CharAt(str, p + n2 + 1 + y))}}
        end(n2) ==
            IF ~DigitsAt(str, p, n2) THEN -1
            ELSE IF ends(n2) # {} THEN SetMax(ends(n2))
            ELSE IF ~IsWordChar(CharAt(str, p + n2)) THEN p + n2
            ELSE -1
    IN  IF /\ IsDigit(CharAt(str, i))
           /\ ~IsWordChar(CharAt(str, i - 1))
           /\ n1 \in {1, 2}
           /\ CharAt(str, i + n1) \in {"/", "-"}
        THEN (IF end(2) >= 0 THEN end(2) ELSE end(1))
        ELSE -1

\* Where /\b\d{4}-\d{2}-\d{2}\b/ matched at offset i of str ends, or -1.
IsoDateEnd(str, i) ==
    IF /\ ~IsWordChar(CharAt(str, i - 1))
       /\ DigitsAt(str, i, 4) /\ CharAt(str, i + 4) = "-"
       /\ DigitsAt(str, i + 5, 2) /\ CharAt(str, i + 7) = "-"
       /\ DigitsAt(str, i + 8, 2)
       /\ ~IsWordChar(CharAt(str, i + 10))
    THEN i + 10 ELSE -1

\* Where the date pattern of this kind matched at offset i of str ends.
DateEnd(kind, str, i) ==
    CASE kind = "month" -> MonthDateEnd(str, i)
      [] kind = "numeric" -> NumericDateEnd(str, i)
      [] kind = "iso" -> IsoDateEnd(str, i)
      [] OTHER -> -1

\* The offsets of str at which the date pattern of this kind matches.
DateStarts(kind, str) == {i \in 0..(Len(str) - 1) : DateEnd(kind, str, i) >= 0}

\* /-\$[\d,]+\.?\d*/g.test(str)
HasSignedAmount(str) ==
    \E i \in 0..(Len(str) - 3) :
        /\ slice(str, i, i + 2) = "-$"
        /\ (IsDigit(CharAt(str, i + 2)) \/ CharAt(str, i + 2) = ",")

\* detectTransactionFormat: datePattern is the kind of the first pattern
\* that matches somewhere in the text, "none" for null.
detectTransactionFormat(txt) ==
    [hasDebitCredit |-> HasWord(txt, {"debit", "debits", "credit", "credits"}),
     hasSignedAmounts |-> HasSignedAmount(txt),
     datePattern |-> IF DateStarts("month", txt) # {} THEN "month"
                     ELSE IF DateStarts("numeric", txt) # {} THEN "numeric"
                     ELSE IF DateStarts("iso", txt) # {} THEN "iso"
                     ELSE "none"]

\* The length of the run of digits and commas of str that starts at i.
RECURSIVE AmountRun(_, _)
AmountRun(str, i) ==
    IF IsDigit(CharAt(str, i)) \/ CharAt(str, i) = ","
    THEN 1 + AmountRun(str, i + 1) ELSE 0

\* Where /-?\$?[\d,]+\.?\d*/ matched at offset i of str ends, or -1.
AmountEnd(str, i) ==
    Once(IF CharAt(str, i) = "-" THEN i + 1 ELSE i, LAMBDA a :
    Once(IF CharAt(str, a) = "$" THEN a + 1 ELSE a, LAMBDA b :
    Once(AmountRun(str, b), LAMBDA n :
    Once(IF CharAt(str, b + n) = "." THEN b + n + 1 ELSE b + n, LAMBDA c :
        IF n = 0 THEN -1 ELSE c + DigitRun(str, c)))))

\* line.match(/-?\$?[\d,]+\.?\d*/g): the matches from offset i on, left to
\* right, none overlapping another.
RECURSIVE AmountTokens(_, _)
AmountTokens(str, i) ==
    IF i >= Len(str) THEN <<>>
    ELSE Once(AmountEnd(str, i), LAMBDA e :
            IF e < 0 THEN AmountTokens(str, i + 1)
            ELSE <<slice(str, i, e)>> \o AmountTokens(str, e))

\* parseFloat(a.replace(/[$,]/g, '')) is a number other than 0: the token
\* has a digit other than 0 (a token without digits parses to NaN).
IsNonZeroAmount(token) ==
    \E k \in 0..(Len(token) - 1) : IsDigit(CharAt(token, k)) /\ CharAt(token, k) # "0"

\* str with its amount tokens deleted: .replace(/-?\$?[\d,]+\.?\d*/g, '')
RECURSIVE WithoutAmounts(_, _)
WithoutAmounts(str, i) ==
    IF i >= Len(str) THEN ""
    ELSE Once(AmountEnd(str, i), LAMBDA e :
            IF e < 0 THEN CharAt(str, i) \o WithoutAmounts(str, i + 1)
            ELSE WithoutAmounts(str, e))

\* str.split('\n').filter(l => l.trim())
NonBlankLines(str) == SelectSeq(split(str), LAMBDA l : trim(l) # "")

HeaderWords == {"date", "description", "amount", "debit", "credit", "balance"}

\* startIdx: the line after the last of the first three that names a column.
StartIdx(lines) ==
    SetMax({0} \cup {i + 1 : i \in {i \in 0..(Min(3, Len(lines)) - 1) :
                                       HasWord(lines[i + 1], HeaderWords)}})

\* /\b(total|subtotal|ending balance|beginning balance)\b/i.test(line)
IsTotalLine(line) ==
    HasWord(line, {"total", "subtotal", "ending balance", "beginning balance"})

\* The line is pushed as a transaction: it is no total, the format has a
\* date pattern that matches in it, and it holds an amount other than 0.
IsTransaction(format, line) ==
    /\ ~IsTotalLine(line)
    /\ DateStarts(format.datePattern, line) # {}
    /\ \E amounts \in {AmountTokens(line, 0)} :
           \E k \in DOMAIN amounts : IsNonZeroAmount(amounts[k])

\* str without the characters of cs: .replace(/[$,]/g, '')
RECURSIVE WithoutChars(_, _)
WithoutChars(str, cs) ==
    IF str = "" THEN ""
    ELSE (IF CharAt(str, 0) \in cs THEN "" ELSE CharAt(str, 0))
         \o WithoutChars(slice(str, 1, Len(str)), cs)

\* The digits without the zeros they start with.
RECURSIVE WithoutLeadingZeros(_)
WithoutLeadingZeros(digits) ==
    IF Len(digits) > 0 /\ CharAt(digits, 0) = "0"
    THEN WithoutLeadingZeros(slice(digits, 1, Len(digits)))
    ELSE digits

\* The digits without the zeros they end with.
RECURSIVE WithoutTrailingZeros(_)
WithoutTrailingZeros(digits) ==
    IF Len(digits) > 0 /\ CharAt(digits, Len(digits) - 1) = "0"
    THEN WithoutTrailingZeros(slice(digits, 0, Len(digits) - 1))
    ELSE digits

\* A number of JavaScript, by its decimal digits: the digits before the
\* point without leading zeros, those after it without trailing zeros, so
\* that equal numbers are equal records.  Zero has no sign.
Decimal(neg, whole, frac) ==
    Once(WithoutLeadingZeros(whole), LAMBDA w :
    Once(WithoutTrailingZeros(frac), LAMBDA f :
        [neg |-> neg /\ (w # "" \/ f # ""), whole |-> w, frac |-> f]))

NaN == [nan |-> TRUE]

Zero == Decimal(FALSE, "", "")

isNaN(n) == n = NaN

\* n < 0
IsNegative(n) == ~isNaN(n) /\ n.neg

\* Math.abs(n)
abs(n) == IF isNaN(n) THEN NaN ELSE [n EXCEPT !.neg = FALSE]

\* parseFloat(str) for a str of the form -?\d*\.?\d*, which is what an
\* amount token without "$" and "," is: NaN when it has no digit.
parseFloat(str) ==
    Once(IF CharAt(str, 0) = "-" THEN 1 ELSE 0, LAMBDA b :
    Once(DigitRun(str, b), LAMBDA n :
    Once(IF CharAt(str, b + n) = "." THEN DigitRun(str, b + n + 1) ELSE 0, LAMBDA m :
        IF n = 0 /\ m = 0 THEN NaN
        ELSE Decimal(b = 1, slice(str, b, b + n),
                     slice(str, b + n + 1, b + n + 1 + m)))))

\* amounts: the tokens as numbers, without NaN and 0.
Amounts(line) ==
    Once(AmountTokens(line, 0), LAMBDA tokens :
        SelectSeq([k \in 1..Len(tokens) |->
                      parseFloat(WithoutChars(tokens[k], {"$", ","}))],
                  LAMBDA n : ~isNaN(n) /\ n # Zero))

\* The offsets at which /-\$?([\d,]+\.?\d*)/ matches.
DebitStarts(line) ==
    {i \in 0..(Len(line) - 1) :
        /\ CharAt(line, i) = "-"
        /\ AmountRun(line, IF CharAt(line, i + 1) = "$" THEN i + 2 ELSE i + 1) > 0}

\* debitMatch[1]: the first group of the first match.
DebitGroup(line) ==
    Once(SetMin(DebitStarts(line)), LAMBDA i :
        slice(line, IF CharAt(line, i + 1) = "$" THEN i + 2 ELSE i + 1,
              AmountEnd(line, i)))

\* creditMatch is not null: /(?<![-.])(\$?([\d,]+\.?\d*))/ matches
\* somewhere.
HasCreditMatch(line) ==
    \E i \in 0..(Len(line) - 1) :
        /\ CharAt(line, i - 1) \notin {"-", "."}
        /\ AmountRun(line, IF CharAt(line, i) = "$" THEN i + 1 ELSE i) > 0

CreditWords == {"deposit", "credit", "incoming", "wire in"}

DebitWords ==
    {"withdrawal", "debit", "outgoing", "wire out", "payment", "fee", "charge"}

\* The last element of a non-empty sequence.
Last(seq) == seq[Len(seq)]

\* type, amount and balance of the transaction of a line, by the format of
\* its table; balance is left out where the code leaves it undefined.
AmountsOf(format, line) ==
    Once(Amounts(line), LAMBDA amounts :
        IF format.hasDebitCredit
        THEN IF DebitStarts(line) # {}
             THEN [type |-> "debit",
                   amount |-> abs(parseFloat(WithoutChars(DebitGroup(line), {","})))]
             ELSE IF HasCreditMatch(line) /\ Len(amounts) > 0
             THEN IF Len(amounts) >= 2
                  THEN [type |-> "credit", amount |-> amounts[1],
                        balance |-> Last(amounts)]
                  ELSE [type |-> "credit", amount |-> amounts[1]]
             ELSE [type |-> "unknown", amount |-> Zero]
        ELSE IF format.hasSignedAmounts
        THEN Once(SelectSeq(amounts, IsNegative), LAMBDA negative :
             Once(IF Len(negative) > 0
                  THEN [type |-> "debit", amount |-> abs(negative[1])]
                  ELSE [type |-> "credit", amount |-> amounts[1]], LAMBDA t :
                 IF Len(amounts) > 1
                 THEN [type |-> t.type, amount |-> t.amount,
                       balance |-> Last(amounts)]
                 ELSE t))
        ELSE IF Len(amounts) >= 2
        THEN [type |-> IF HasWord(line, CreditWords) THEN "credit"
                       ELSE IF HasWord(line, DebitWords) THEN "debit"
                       ELSE "unknown",
              amount |-> abs(amounts[1]),
              balance |-> Last(amounts)]
        ELSE [type |-> "unknown", amount |-> abs(amounts[1])])

\* str.replace(pat, ''): str without the first occurrence of pat.
WithoutFirst(str, pat) ==
    Once(indexOf(str, pat), LAMBDA at :
        IF at < 0 THEN str
        ELSE slice(str, 0, at) \o slice(str, at + Len(pat), Len(str)))

\* The transaction pushed for the line: date is the first match of the date
\* pattern, description the line without the first occurrence of that date
\* and without its amounts; type, amount and balance as AmountsOf has them.
TransactionOf(format, line) ==
    Once(SetMin(DateStarts(format.datePattern, line)), LAMBDA at :
    Once(slice(line, at, DateEnd(format.datePattern, line, at)), LAMBDA date :
    Once(trim(collapseSpace(WithoutAmounts(WithoutFirst(line, date), 0))),
         LAMBDA description :
        [date |-> date,
         description |-> IF description = "" THEN "Transaction" ELSE description,
         raw_text |-> line] @@ AmountsOf(format, line))))

\* extractTransactionsFromTable: the transactions of the table's lines.
extractTransactionsFromTable(tableText) ==
    Once(detectTransactionFormat(tableText), LAMBDA format :
    Once(NonBlankLines(tableText), LAMBDA lines :
    Once(StartIdx(lines), LAMBDA startIdx :
    Once(SelectSeq([k \in 1..(Len(lines) - startIdx) |-> trim(lines[startIdx + k])],
                   LAMBDA line : IsTransaction(format, line)), LAMBDA kept :
        [k \in 1..Len(kept) |-> TransactionOf(format, kept[k])]))))

---------------------------------------------------------------------------
(* documentProcessor.ts: createLogicalChunks and processDocument.          *)

\* The characters of [\s\-|].
IsRuleChar(c) == IsSpace(c) \/ c = "-" \/ c = "|"

\* The length of the run of characters of [\s\-|] of str that starts at i.
RECURSIVE RuleRun(_, _)
RuleRun(str, i) ==
    IF IsRuleChar(CharAt(str, i)) THEN 1 + RuleRun(str, i + 1) ELSE 0

\* The offsets e of str such that \|[\s\-|]+\| matched at offset r ends
\* right after e: a bar at r, a bar at e, one or more rule characters
\* between them.
RuleEnds(str, r) ==
    IF CharAt(str, r) # "|" THEN {}
    ELSE {e \in (r + 2)..(r + RuleRun(str, r) - 1) : CharAt(str, e) = "|"}

\* The end of the line of str that starts at offset i: the offset of the
\* next line feed, or the length of str.
RECURSIVE LineEnd(_, _)
LineEnd(str, i) ==
    IF i >= Len(str) \/ CharAt(str, i) = "\n" THEN i ELSE LineEnd(str, i + 1)

\* (?=\n\|[^\n]+\|\n\|[\s\-|]+\|) holds at offset q of str: a line feed, a
\* line that starts and ends with a bar, and the start of a rule.
TableStartsAt(str, q) ==
    /\ CharAt(str, q) = "\n"
    /\ CharAt(str, q + 1) = "|"
    /\ \E e \in {LineEnd(str, q + 1)} :
        /\ e >= q + 4 /\ e < Len(str)
        /\ CharAt(str, e - 1) = "|"
        /\ RuleEnds(str, e + 1) # {}

\* content.split(/(?=...)/): content cut before every offset, other than 0,
\* at which a table starts.
Sections(content) ==
    Once({q \in 1..(Len(content) - 1) : TableStartsAt(content, q)}, LAMBDA cuts :
        [k \in 1..(Cardinality(cuts) + 1) |->
            slice(content,
                  IF k = 1 THEN 0 ELSE Kth(cuts, k - 1),
                  IF k = Cardinality(cuts) + 1 THEN Len(content) ELSE Kth(cuts, k))])

\* trimmed.match(/^[\s\S]*?\n\|[\s\-|]+\|\n/): the text up to the end of the
\* first rule line ('' when there is none).  The text before the rule is as
\* short, the rule as long as can be.
TableHeader(trimmed) ==
    LET ends(q) == {e \in RuleEnds(trimmed, q + 1) : CharAt(trimmed, e + 1) = "\n"}
    IN  Once({q \in 0..(Len(trimmed) - 1) :
                 CharAt(trimmed, q) = "\n" /\ ends(q) # {}}, LAMBDA starts :
            IF starts = {} THEN ""
            ELSE slice(trimmed, 0, SetMax(ends(SetMin(starts))) + 2))

isTransactionTable(txt) ==
    LET hasDateColumn == HasWord(txt, {"date", "fecha"})
        hasAmountColumn ==
            HasWord(txt, {"amount", "monto", "debit", "credit", "balance"})
        hasMultipleRows == Len(split(txt)) >= 3
        hasTabularFormat ==
            includes(txt, "|") \/ includes(txt, "\t") \/ includes(txt, "---")
    IN  (hasDateColumn \/ hasAmountColumn) /\ hasMultipleRows /\ hasTabularFormat

\* A logical chunk.
LogicalChunk(txt, isTable, transactions) ==
    [text |-> txt, isTable |-> isTable, transactions |-> transactions]

\* The pass that starts a chunk without listing the transaction that opens
\* it.
TransactionStep_Unlisted(st, header, transaction, maxChunkSize) ==
    LET transactionText == transaction.raw_text \o "\n"
    IN  IF /\ Len(st.currentChunk \o transactionText) > maxChunkSize
           /\ Len(st.currentChunk) > 0
        THEN [chunks |-> Append(st.chunks,
                                LogicalChunk(header \o trim(st.currentChunk), TRUE,
                                             st.currentTransactions)),
              currentChunk |-> transactionText,
              currentTransactions |-> <<>>]
        ELSE [chunks |-> st.chunks,
              currentChunk |-> st.currentChunk \o transactionText,
              currentTransactions |-> Append(st.currentTransactions, transaction)]

\* One pass of the loop over the transactions of a section beyond the
\* size: st is [chunks, currentChunk, currentTransactions].
TransactionStep(st, header, transaction, maxChunkSize) ==
    LET transactionText == transaction.raw_text \o "\n"
    IN  IF /\ Len(st.currentChunk \o transactionText) > maxChunkSize
           /\ Len(st.currentChunk) > 0
        THEN [chunks |-> Append(st.chunks,
                                LogicalChunk(header \o trim(st.currentChunk), TRUE,
                                             st.currentTransactions)),
              currentChunk |-> transactionText,
              currentTransactions |-> <<transaction>>]
        ELSE [chunks |-> st.chunks,
              currentChunk |-> st.currentChunk \o transactionText,
              currentTransactions |-> Append(st.currentTransactions, transaction)]

\* The loop over the first k transactions of the section.
RECURSIVE TransactionLoop(_, _, _, _, _)
TransactionLoop(acc, header, transactions, k, maxChunkSize) ==
    IF k = 0
    THEN [chunks |-> acc, currentChunk |-> "", currentTransactions |-> <<>>]
    ELSE Once(TransactionLoop(acc, header, transactions, k - 1, maxChunkSize),
              LAMBDA st : TransactionStep(st, header, transactions[k], maxChunkSize))

\* The branch of a section beyond the size that has transactions.
SplitByTransactions(acc, trimmed, transactions, maxChunkSize) ==
    Once(TableHeader(trimmed), LAMBDA header :
    Once(TransactionLoop(acc, header, transactions, Len(transactions), maxChunkSize),
         LAMBDA st :
        IF trim(st.currentChunk) # ""
        THEN Append(st.chunks,
                    LogicalChunk(header \o trim(st.currentChunk), TRUE,
                                 st.currentTransactions))
        ELSE st.chunks))

\* The body of the loop over the sections, for one section: the logical
\* chunks acc with those of the section added.
SectionChunks(acc, section, maxChunkSize) ==
    Once(trim(section), LAMBDA trimmed :
        IF trimmed = "" THEN acc
        ELSE
    Once(isTransactionTable(trimmed), LAMBDA isTable :
    Once(IF isTable THEN extractTransactionsFromTable(trimmed) ELSE <<>>,
         LAMBDA transactions :
        IF Len(trimmed) > maxChunkSize /\ Len(transactions) > 0
        THEN SplitByTransactions(acc, trimmed, transactions, maxChunkSize)
        ELSE Append(acc, LogicalChunk(trimmed, isTable, transactions)))))

\* The loop over the first k sections.
RECURSIVE SectionLoop(_, _, _)
SectionLoop(sections, k, maxChunkSize) ==
    IF k = 0 THEN <<>>
    ELSE Once(SectionLoop(sections, k - 1, maxChunkSize), LAMBDA acc :
            SectionChunks(acc, sections[k], maxChunkSize))

createLogicalChunks(content, maxChunkSize) ==
    Once(Sections(content), LAMBDA sections :
        SectionLoop(sections, Len(sections), maxChunkSize))

\* The characters of the chunk's text that contains_header looks at.
HeaderPrefix == 200

\* The chunk processDocument pushes for a logical chunk; the fields
\* transactions and metadata.page_number are left out when undefined.
ProcessedChunk(n, bank, chunk, docChunk) ==
    LET base ==
            [chunk_id |-> ChunkId(n),
             chunk_number |-> n,
             total_chunks |-> 0,
             char_len |-> Len(chunk.text),
             has_table |-> chunk.isTable,
             bank_name |-> bank,
             chunk_text |-> chunk.text,
             metadata |->
                 (IF "page_number" \in DOMAIN docChunk
                  THEN [page_number |-> docChunk.page_number] ELSE <<>>)
                 @@ [contains_summary |->
                         HasWord(chunk.text, {"summary", "resumen", "balance", "total"}),
                     contains_header |->
                         HasWord(slice(chunk.text, 0, HeaderPrefix),
                                 {"account", "statement", "date"})]]
    IN  IF Len(chunk.transactions) > 0
        THEN ("transactions" :> chunk.transactions) @@ base
        ELSE base

\* The loop over the first k logical chunks of one chunk of the document.
RECURSIVE PushLogicalChunks(_, _, _, _, _)
PushLogicalChunks(all, bank, logical, k, docChunk) ==
    IF k = 0 THEN all
    ELSE Once(PushLogicalChunks(all, bank, logical, k - 1, docChunk), LAMBDA pushed :
            Append(pushed, ProcessedChunk(Len(pushed) + 1, bank, logical[k], docChunk)))

\* The loop over the first k chunks of the document.
RECURSIVE ProcessChunks(_, _, _, _)
ProcessChunks(bank, docChunks, k, maxChunkSize) ==
    IF k = 0 THEN <<>>
    ELSE Once(ProcessChunks(bank, docChunks, k - 1, maxChunkSize), LAMBDA all :
         Once(createLogicalChunks(docChunks[k].content, maxChunkSize), LAMBDA logical :
            PushLogicalChunks(all, bank, logical, Len(logical), docChunks[k])))

\* doc.labels?.bank || detectBankName(doc.chunks?.[0]?.content || '') ||
\* 'Unknown'
ProcessBankName(d) ==
    IF "labels" \in DOMAIN d /\ Truthy(d.labels.bank) THEN d.labels.bank
    ELSE detectBankName(IF "chunks" \in DOMAIN d /\ Len(d.chunks) > 0
                        THEN d.chunks[1].content ELSE "")

\* The contents of the chunks of the documents handed to processDocument:
\* nothing, blanks, a line of text, a text followed by a table of two
\* transactions, a table whose last line is a total.
ContentSamples ==
    <<"", "  ", "Chase statement",
      "intro\n|Date|Amount|\n|---|---|\n|01/15 x|5.00|\n|01/16 y|7.00|",
      "|Date|Debit|\n|---|---|\n|Jan 5 fee|-$3.00|\n|Total|3.00|">>

\* Most chunks of a document handed to processDocument.
MaxDocChunks == 2

ProcessInputs ==
    {<<[pages |-> <<>>], m>> : m \in {10, 30, 12000}}
    \cup
    {<<[chunks |-> [k \in 1..n |-> [content |-> ContentSamples[kinds[k]]]]], m>> :
        n \in 0..MaxDocChunks,
        kinds \in [1..MaxDocChunks -> DOMAIN ContentSamples],
        m \in {10, 30, 12000}}
    \cup
    {<<[chunks |-> [k \in 1..n |-> [content |-> ContentSamples[kinds[k]],
                                    page_number |-> k]],
        labels |-> [bank |-> "Amerant"]], m>> :
        n \in 1..MaxDocChunks,
        kinds \in [1..MaxDocChunks -> DOMAIN ContentSamples],
        m \in {10, 30, 12000}}

InitProcess ==
    /\ op = "process" /\ pc = "call"
    /\ \E in \in ProcessInputs : doc = in[1] /\ max = in[2]
    /\ NoResult
    /\ IdleChunkify /\ IdleParsed /\ IdleText /\ IdleHtml /\ IdleHandle
    /\ IdleTable

processDocument ==
    /\ op = "process" /\ pc = "call"
    /\ bankName' = ProcessBankName(doc)
    /\ \E allChunks \in {IF "chunks" \in DOMAIN doc /\ Len(doc.chunks) > 0
                         THEN ProcessChunks(bankName', doc.chunks, Len(doc.chunks), max)
                         ELSE <<>>} :
           /\ chunks' = [i \in 1..Len(allChunks) |->
                            [allChunks[i] EXCEPT !.total_chunks = Len(allChunks)]]
           /\ idx' = Len(allChunks) + 1
    /\ pc' = "done"
    /\ UNCHANGED <<op, max, s, start, out, loopVars, text, html, doc,
                   input, res, tableTransactions,
                   tablesDetected>>

SpecProcess == InitProcess /\ [][processDocument]_vars

ProcessDone == op = "process" /\ pc = "done"

---------------------------------------------------------------------------
(* The four entry paths together.                                          *)

InitSegmenter == InitText \/ InitHtml \/ InitParsed \/ InitProcess

NextSegmenter == extractFromText \/ extractFromHtml \/ NextParsed \/ processDocument

SpecSegmenter == InitSegmenter /\ [][NextSegmenter]_vars

\* An entry path has returned: chunks is its result.
Returned == op \in {"text", "html", "parsed", "process"} /\ pc = "done"

---------------------------------------------------------------------------
(* Claims about the returned chunks, checked under SpecSegmenter.          *)

\* C4: on every entry path (extractFromText, extractFromHtml,
\* extractFromParsedDocument with its fallback, processDocument) the returned
\* chunks are numbered 1, 2, ..., N in the order they were emitted, the
\* chunk_id of each is "chunk_" followed by its number, and total_chunks is N
\* on every chunk.
C4_TotalCount ==
    Returned =>
        \A i \in 1..Len(chunks) :
            /\ chunks[i].chunk_number = i
            /\ chunks[i].chunk_id = "chunk_" \o ToString(i)
            /\ chunks[i].total_chunks = Len(chunks)

\* C4 witness: the fallback of extractFromParsedDocument returned several
\* chunks, cut by chunkify from the pre-chunked array.
C4_Witness ==
    /\ ParsedDone /\ Len(chunks) >= 2
    /\ "page_range" \notin DOMAIN chunks[1]
    /\ chunks[Len(chunks)].total_chunks = Len(chunks)

\* processDocument returned the chunks of a table it cut by transactions.
ProcessSplitDone ==
    /\ ProcessDone /\ Len(chunks) >= 3
    /\ \E i \in 1..Len(chunks) : "transactions" \in DOMAIN chunks[i]

\* The rows of the texts, in order: their non-blank lines, each trimmed.
RECURSIVE RowsOf(_)
RowsOf(texts) ==
    IF Len(texts) = 0 THEN <<>>
    ELSE SelectSeq([k \in 1..Len(split(Head(texts))) |-> trim(split(Head(texts))[k])],
                   LAMBDA row : row # "")
         \o RowsOf(Tail(texts))

\* The texts of the chunks that are flagged as holding a table, in order.
TableChunkTexts ==
    LET flagged == SelectSeq(chunks, LAMBDA c : c.has_table)
    IN  [i \in 1..Len(flagged) |-> flagged[i].chunk_text]

\* The contents of the table blocks of the text, in order.
TableBlockTexts ==
    LET tables == SelectSeq(splitTableLikeBlocks(text), LAMBDA b : b.type = "table")
    IN  [i \in 1..Len(tables) |-> tables[i].content]

\* C5: on the plain-text and HTML paths every row of a table lies whole in
\* one chunk: the lines of the chunks flagged has_table are, one for one and
\* in order, the rows of the table blocks (of the tables of the HTML), also
\* when a table is longer than max.
C5_NoRowSplit ==
    /\ TextDone => RowsOf(TableChunkTexts) = RowsOf(TableBlockTexts)
    /\ HtmlDone => RowsOf(TableChunkTexts) = RowsOf(TableTexts(html.tables))

\* Where the code agrees with C5: the rows are kept whole when every table
\* fits in max characters.
C5_NoRowSplit_TablesFit ==
    /\ (TextDone /\ \A i \in DOMAIN TableBlockTexts : Len(TableBlockTexts[i]) <= max)
          => RowsOf(TableChunkTexts) = RowsOf(TableBlockTexts)
    /\ (HtmlDone /\ \A i \in DOMAIN TableTexts(html.tables) :
                        Len(TableTexts(html.tables)[i]) <= max)
          => RowsOf(TableChunkTexts) = RowsOf(TableTexts(html.tables))

\* A table block longer than max was cut inside a row.
RowSplit ==
    /\ TextDone
    /\ \E i \in DOMAIN TableBlockTexts : Len(TableBlockTexts[i]) > max
    /\ RowsOf(TableChunkTexts) # RowsOf(TableBlockTexts)

\* C8: on every path the text of every returned chunk has no leading and no
\* trailing whitespace, and char_len is the length of that text, also for a
\* chunk of the page loop into which a page without content was packed.
C8_TrimmedText ==
    Returned =>
        \A i \in 1..Len(chunks) :
            /\ trim(chunks[i].chunk_text) = chunks[i].chunk_text
            /\ chunks[i].char_len = Len(chunks[i].chunk_text)

\* Where the code agrees with C8: char_len is the length of the text on
\* every path, and the text is trimmed on every path but the page loop.
C8_TrimmedText_OutsidePageLoop ==
    Returned =>
        \A i \in 1..Len(chunks) :
            /\ chunks[i].char_len = Len(chunks[i].chunk_text)
            /\ "page_range" \notin DOMAIN chunks[i]
                  => trim(chunks[i].chunk_text) = chunks[i].chunk_text

\* The page loop returned a chunk whose text ends with a page-break marker.
EndsWithPageBreak ==
    /\ ParsedDone
    /\ \E i \in 1..Len(chunks) :
          /\ "page_range" \in DOMAIN chunks[i]
          /\ Len(chunks[i].chunk_text) >= Len(PageBreak)
          /\ slice(chunks[i].chunk_text,
                   Len(chunks[i].chunk_text) - Len(PageBreak),
                   Len(chunks[i].chunk_text)) = PageBreak

\* C9: on every path every returned chunk has a text that is not blank and
\* a char_len of at least 1, also when the pre-chunked array is empty or
\* holds blanks only.
C9_NoEmptyChunk ==
    Returned =>
        \A i \in 1..Len(chunks) :
            /\ trim(chunks[i].chunk_text) # ""
            /\ chunks[i].char_len >= 1

\* Where the code agrees with C9: no chunk is blank unless it is the one
\* chunk the fallback pushes for a pre-chunked array without content.
C9_NoEmptyChunk_ButBlankFallback ==
    Returned =>
        \/ \A i \in 1..Len(chunks) :
              trim(chunks[i].chunk_text) # "" /\ chunks[i].char_len >= 1
        \/ /\ op = "parsed" /\ Has(parsedDoc, "chunks")
           /\ consolidatedContent(parsedDoc.chunks) = ""
           /\ Len(chunks) = 1 /\ chunks[1].chunk_text = ""

\* The fallback returned one chunk without text.
EmptyFallbackChunk ==
    /\ ParsedDone /\ Has(parsedDoc, "chunks")
    /\ Len(chunks) = 1 /\ chunks[1].char_len = 0

---------------------------------------------------------------------------
(* Claims about the page loop, checked under SpecParsed.                   *)

\* The i-th page of the document (1-based) has a page_fragments field.
HasFragments(i) == Has(parsedDoc.pages[i], "page_fragments")

\* content(p): the content extracted from the i-th page.
ContentOf(i) == ExtractPage(parsedDoc.pages[i]).content

\* The page number the loop gives the i-th page.
NumberOf(i) == PageNumber(parsedDoc.pages[i], i - 1)

\* The i-th page has content to put into a chunk.
BearsContent(i) == HasFragments(i) /\ ContentOf(i) # ""

\* The contents of the fragment-bearing pages a..b, in document order, with
\* the page-break marker between them.
RECURSIVE PagesJoined(_, _)
PagesJoined(a, b) ==
    IF a > b THEN ""
    ELSE IF ~HasFragments(b) THEN PagesJoined(a, b - 1)
    ELSE IF \A i \in a..(b - 1) : ~HasFragments(i) THEN ContentOf(b)
    ELSE PagesJoined(a, b - 1) \o PageBreak \o ContentOf(b)

\* The chunks the page loop emitted.
PageChunks == SelectSeq(chunks, LAMBDA c : Has(c, "page_range"))

\* The chunk c holds exactly the pages a..b.
HoldsPages(c, a, b) ==
    /\ BearsContent(a) /\ HasFragments(b)
    /\ c.chunk_text = PagesJoined(a, b)

\* The chunks cs[j], cs[j + 1], ... hold, in this order, consecutive runs of
\* the pages from, from + 1, ..., n that leave out no page with content.
RECURSIVE HoldAllPages(_, _, _, _)
HoldAllPages(cs, j, from, n) ==
    IF j > Len(cs) THEN \A i \in from..n : ~BearsContent(i)
    ELSE \E a \in from..n : \E b \in a..n :
            /\ \A i \in from..(a - 1) : ~BearsContent(i)
            /\ HoldsPages(cs[j], a, b)
            /\ HoldAllPages(cs, j + 1, b + 1, n)

\* C6: once extractFromParsedDocument has iterated over all the pages, the
\* content of every page that has fragments is in exactly one emitted chunk,
\* in document order: no buffer is left unflushed, also when the last page
\* has no page_fragments field.
C6_NoPageLost ==
    (ParsedDone /\ HasPages) =>
        HoldAllPages(PageChunks, 1, 1, Len(parsedDoc.pages))

\* C6 where the code agrees: the same, for the documents whose last page has
\* a page_fragments field.
C6_NoPageLost_LastPageHasFragments ==
    (/\ ParsedDone /\ HasPages
     /\ Len(parsedDoc.pages) > 0 => HasFragments(Len(parsedDoc.pages)))
        => HoldAllPages(PageChunks, 1, 1, Len(parsedDoc.pages))

\* The buffer was dropped: the loop is over, the last page has no fragments,
\* and the content gathered from the pages before it is in no chunk.
BufferDropped ==
    /\ ParsedDone /\ HasPages /\ Len(parsedDoc.pages) >= 2
    /\ ~HasFragments(Len(parsedDoc.pages))
    /\ currentChunkContent # ""
    /\ PageChunks = <<>>

\* C7: every emitted chunk built from two or more pages (the buffer, the
\* page-break marker, the page's content) has char_len <= max.
C7_ConsolidatedSize ==
    \A i \in 1..Len(chunks) :
        (Has(chunks[i], "page_range") /\ includes(chunks[i].chunk_text, PageBreak))
            => chunks[i].char_len <= max

\* C7 where the code agrees: a chunk built from two or more pages is at most
\* max characters long without its last page-break marker.
C7_ConsolidatedSize_WithoutMarker ==
    \A i \in 1..Len(chunks) :
        (Has(chunks[i], "page_range") /\ includes(chunks[i].chunk_text, PageBreak))
            => chunks[i].char_len - Len(PageBreak) <= max

\* The page numbers increase in document order.
IncreasingPageNumbers ==
    HasPages =>
        \A i, j \in 1..Len(parsedDoc.pages) : i < j => NumberOf(i) < NumberOf(j)

\* The page_range of a chunk that holds the pages a..b: the number of its
\* first page when it holds one page, "first-last" otherwise.
RangeOfPages(a, b) ==
    IF a = b THEN ToString(NumberOf(a))
    ELSE ToString(NumberOf(a)) \o "-" \o ToString(NumberOf(b))

\* The chunks cs[j], cs[j + 1], ... hold, in this order, runs of whole pages
\* taken in document order from the pages from..n, each with the page_range
\* of its run, the numbers of each run beyond prev, the last number of the
\* run before it.
RECURSIVE RangesInOrder(_, _, _, _, _)
RangesInOrder(cs, j, from, n, prev) ==
    IF j > Len(cs) THEN TRUE
    ELSE \E a \in from..n : \E b \in a..n :
            /\ HoldsPages(cs[j], a, b)
            /\ cs[j].page_range = RangeOfPages(a, b)
            /\ prev < NumberOf(a) /\ NumberOf(a) <= NumberOf(b)
            /\ RangesInOrder(cs, j + 1, b + 1, n, NumberOf(b))

\* The page ranges of the chunks the page loop emitted.
PageRanges == [j \in 1..Len(PageChunks) |-> PageChunks[j].page_range]

\* The document of the scenario: three pages of ScenarioPageLen characters,
\* consolidated with max = ScenarioMax.
IsScenario ==
    /\ HasPages /\ Len(parsedDoc.pages) = 3 /\ max = ScenarioMax
    /\ \A i \in 1..3 :
          /\ HasFragments(i)
          /\ parsedDoc.pages[i].page_fragments = ScenarioFragments

\* What holds of the emitted chunks in every state of the page loop.
PackedInOrder ==
    /\ HasPages =>
          RangesInOrder(PageChunks, 1, 1, Len(parsedDoc.pages), 0)
    /\ (ParsedDone /\ IsScenario) => PageRanges = <<"1-2", "3">>

\* The step that takes the extracted page into the buffer starts a new chunk
\* at this page exactly when the buffer is non-empty and
\* len(buffer) + len(content(p)) > max; otherwise the page seeds the empty
\* buffer or follows the buffer's pages after a page-break marker.
GreedyStep ==
    (op = "parsed" /\ pc = "page") =>
        LET startsChunk ==
                /\ idx' = idx + 1
                /\ Len(chunks') > Len(chunks)
                /\ chunks'[Len(chunks) + 1].chunk_text = currentChunkContent
                /\ chunks'[Len(chunks) + 1].page_range
                      = PageRange(startPageNum, endPageNum)
                /\ currentChunkContent' = pageContent
                /\ startPageNum' = pageNum /\ endPageNum' = pageNum
            joinsChunk ==
                /\ idx' = idx
                /\ currentChunkContent' =
                      IF currentChunkContent = "" THEN pageContent
                      ELSE currentChunkContent \o PageBreak \o pageContent
                /\ startPageNum' =
                      IF currentChunkContent = "" THEN pageNum ELSE startPageNum
                /\ endPageNum' = pageNum
        IN  /\ startsChunk <=>
                  (/\ currentChunkContent # ""
                   /\ Len(currentChunkContent) + Len(pageContent) > max)
            /\ startsChunk \/ joinsChunk

\* C10 as stated: greedy packing in document order, with page ranges that are
\* the first page's number or "first-last", increasing and non-overlapping
\* from chunk to chunk, for every parsed document; 3 pages of 5,000
\* characters with max 12,000 give the ranges "1-2" and "3".
C10_GreedyPacking_Original == [][GreedyStep]_vars /\ []PackedInOrder

\* C10 where the code agrees: the same, for the documents whose page numbers
\* increase in document order, a page whose page_number is missing or 0
\* counted as numbered by its position.
C10_GreedyPacking ==
    [][GreedyStep]_vars /\ [](IncreasingPageNumbers => PackedInOrder)

\* Pages numbered 5, 6, 7: the first two were packed into one chunk, the
\* third would have exceeded max and started the next chunk.
C10_Witness ==
    /\ ParsedDone /\ IncreasingPageNumbers
    /\ PageRanges = <<"5-6", "7">>
    /\ Len(PageChunks[1].chunk_text) <= max

\* The scenario was run to its end.
ScenarioDone == ParsedDone /\ IsScenario /\ Len(chunks) = 2

---------------------------------------------------------------------------
(* Claims about the metadata of the chunks, checked under SpecParsed.      *)

\* The elements of an array, as a set.
Elements(arr) == {arr[i] : i \in 1..Len(arr)}

\* No element occurs twice in the array.
DuplicateFree(arr) == \A i, j \in 1..Len(arr) : arr[i] = arr[j] => i = j

\* The table fragments of the i-th page, in reading order.
TablesOf(i) ==
    SelectSeq(sortByReadingOrder(parsedDoc.pages[i].page_fragments),
              LAMBDA f : f.fragment_type = "table")

\* What one table contributes to the metadata: the structure found in its
\* header and content, and the number of its transaction lines.
Contribution(fragment) ==
    LET tableMeta == analyzeTableStructure(fragment.cells, fragment.content)
    IN  [has_transactions |-> tableMeta.has_transactions,
         debit_columns |-> tableMeta.debit_columns,
         credit_columns |-> tableMeta.credit_columns,
         date_column |-> tableMeta.date_column,
         description_column |-> tableMeta.description_column,
         transaction_count |->
             IF tableMeta.has_transactions
             THEN CountTransactionLines(split(fragment.content)) ELSE 0]

\* The contributions of the tables of the pages a..b, in document and
\* reading order.
RECURSIVE Contributions(_, _)
Contributions(a, b) ==
    IF a > b THEN <<>>
    ELSE IF ~HasFragments(b) THEN Contributions(a, b - 1)
    ELSE Contributions(a, b - 1)
         \o [k \in 1..Len(TablesOf(b)) |-> Contribution(TablesOf(b)[k])]

\* The first value of the array that is not null, null when there is none.
RECURSIVE FirstNonNull(_)
FirstNonNull(values) ==
    IF Len(values) = 0 THEN Null
    ELSE IF Head(values) # Null THEN Head(values)
    ELSE FirstNonNull(Tail(values))

RECURSIVE SumOf(_)
SumOf(numbers) ==
    IF Len(numbers) = 0 THEN 0 ELSE Head(numbers) + SumOf(Tail(numbers))

\* The merge rule: metadata is the merge of the contributors cs.
FollowsMergeRule(metadata, cs) ==
    /\ Elements(metadata.debit_columns)
          = UNION {Elements(cs[k].debit_columns) : k \in 1..Len(cs)}
    /\ DuplicateFree(metadata.debit_columns)
    /\ Elements(metadata.credit_columns)
          = UNION {Elements(cs[k].credit_columns) : k \in 1..Len(cs)}
    /\ DuplicateFree(metadata.credit_columns)
    /\ metadata.has_transactions
          = (\E k \in 1..Len(cs) : cs[k].has_transactions)
    /\ metadata.transaction_count
          = SumOf([k \in 1..Len(cs) |-> cs[k].transaction_count])
    /\ metadata.date_column
          = FirstNonNull([k \in 1..Len(cs) |-> cs[k].date_column])
    /\ metadata.description_column
          = FirstNonNull([k \in 1..Len(cs) |-> cs[k].description_column])

\* C11: the metadata of every emitted chunk is the merge of what the tables
\* of its pages contribute: debit_columns and credit_columns their
\* duplicate-free union, has_transactions their logical OR,
\* transaction_count their sum, date_column and description_column the first
\* non-null value in reading and document order.
C11_MergeRule ==
    HasPages =>
        \A j \in 1..Len(PageChunks) :
            \A a, b \in 1..Len(parsedDoc.pages) :
                HoldsPages(PageChunks[j], a, b) =>
                    FollowsMergeRule(PageChunks[j].metadata, Contributions(a, b))

\* C11 where the code agrees: the page that joins the buffer is merged into
\* the buffer's metadata by the rule (mergeMetadata, between pages).
C11_MergeRule_BetweenPages ==
    [][PageAppend =>
          FollowsMergeRule(currentChunkMetadata',
                           <<currentChunkMetadata, pageMetadata>>)]_vars

\* Two pages with metadata of their own were merged into one chunk.
PagesMerged ==
    /\ ParsedDone /\ HasPages /\ Len(PageChunks) = 1
    /\ PageChunks[1].page_range = "1-2"
    /\ PageChunks[1].metadata.transaction_count > 1

\* A later table of a page has overwritten the date_column of an earlier one.
DateColumnOverwritten ==
    /\ InPageBody
    /\ Len(TablesOf(pageIdx + 1)) = 2
    /\ Truthy(Contribution(TablesOf(pageIdx + 1)[1]).date_column)
    /\ pageMetadata.date_column = Contribution(TablesOf(pageIdx + 1)[2]).date_column
    /\ pageMetadata.date_column # Contribution(TablesOf(pageIdx + 1)[1]).date_column

---------------------------------------------------------------------------
(* mergeMetadata on any two metadata values.                               *)

\* The greatest transaction_count of a metadata value handed to
\* mergeMetadata.
MaxCount == 1

\* The metadata values mergeMetadata is run on.
MetadataValues ==
    [has_transactions : BOOLEAN,
     debit_columns : {<<>>, <<"debit">>, <<"out">>, <<"debit", "out">>},
     credit_columns : {<<>>, <<"credit">>},
     date_column : {Null, "date", "posting date"},
     description_column : {Null, "detail"},
     transaction_count : 0..MaxCount]

InitMerge ==
    /\ op = "merge" /\ pc = "call"
    /\ currentChunkMetadata \in MetadataValues
    /\ pageMetadata \in MetadataValues
    /\ max = 0
    /\ parsedDoc = Unused /\ pageIdx = 0
    /\ pageContent = "" /\ currentChunkContent = ""
    /\ startPageNum = 1 /\ endPageNum = 1
    /\ NoResult
    /\ IdleChunkify /\ IdleText /\ IdleHtml /\ IdleProcess /\ IdleHandle
    /\ IdleTable

\* mergeMetadata(currentChunkMetadata, pageMetadata)
MergeCall ==
    /\ op = "merge" /\ pc = "call"
    /\ currentChunkMetadata' = mergeMetadata(currentChunkMetadata, pageMetadata)
    /\ pc' = "done"
    /\ UNCHANGED <<op, max, s, start, out, parsedDoc, pageIdx, pageContent,
                   pageMetadata, currentChunkContent, startPageNum, endPageNum,
                   idx, chunks, bankName, tablesDetected, text, html, doc, input,
                   res,
                   tableTransactions>>

SpecMerge == InitMerge /\ [][MergeCall]_vars

\* Two metadata values agree on what does not depend on the order of a
\* merge: the columns as sets, has_transactions and transaction_count.
SameUpToOrder(m1, m2) ==
    /\ Elements(m1.debit_columns) = Elements(m2.debit_columns)
    /\ Elements(m1.credit_columns) = Elements(m2.credit_columns)
    /\ m1.has_transactions = m2.has_transactions
    /\ m1.transaction_count = m2.transaction_count

\* C12: mergeMetadata(A, B) and mergeMetadata(B, A) have the same
\* debit_columns and credit_columns as sets, the same has_transactions and
\* the same transaction_count, the sum of the counts of A and B.
C12_MergeCommutes ==
    [][MergeCall =>
          /\ SameUpToOrder(currentChunkMetadata',
                           mergeMetadata(pageMetadata, currentChunkMetadata))
          /\ currentChunkMetadata'.transaction_count
                = currentChunkMetadata.transaction_count
                  + pageMetadata.transaction_count]_vars

\* A merge was done whose result depends on the order of its arguments: the
\* source brought a debit column that the target did not have first, both
\* set date_column differently, both counted transactions, and only the
\* target had has_transactions set.
C12_Witness ==
    /\ op = "merge" /\ pc = "done"
    /\ currentChunkMetadata.debit_columns = <<"debit", "out">>
    /\ pageMetadata.debit_columns = <<"out">>
    /\ currentChunkMetadata.date_column = "date"
    /\ pageMetadata.date_column = "posting date"
    /\ currentChunkMetadata.transaction_count = 2 * MaxCount
    /\ currentChunkMetadata.has_transactions /\ ~pageMetadata.has_transactions

---------------------------------------------------------------------------
(* Claims about the transactions, checked under SpecProcess.               *)

\* The transactions a chunk lists (the field is left out when there are
\* none).
ListedIn(c) == IF Has(c, "transactions") THEN c.transactions ELSE <<>>

\* The transactions the first k chunks list, in chunk order.
RECURSIVE Listed(_, _)
Listed(cs, k) ==
    IF k = 0 THEN <<>>
    ELSE Once(Listed(cs, k - 1), LAMBDA before : before \o ListedIn(cs[k]))

\* The transactions parsed from the first k sections: those of every
\* section that is a transaction table, in section order.
RECURSIVE ParsedFromSections(_, _)
ParsedFromSections(sections, k) ==
    IF k = 0 THEN <<>>
    ELSE Once(ParsedFromSections(sections, k - 1), LAMBDA before :
         Once(trim(sections[k]), LAMBDA trimmed :
            IF trimmed # "" /\ isTransactionTable(trimmed)
            THEN before \o extractTransactionsFromTable(trimmed)
            ELSE before))

\* The transactions parsed from the sections of the first k chunks of the
\* document, in document order.
RECURSIVE ParsedFromDocument(_, _)
ParsedFromDocument(docChunks, k) ==
    IF k = 0 THEN <<>>
    ELSE Once(ParsedFromDocument(docChunks, k - 1), LAMBDA before :
         Once(Sections(docChunks[k].content), LAMBDA sections :
            before \o ParsedFromSections(sections, Len(sections))))

\* C13: the transactions lists of the chunks processDocument returns,
\* concatenated in chunk order, are the transactions parsed from the table
\* sections of the document, none dropped, duplicated or reordered; and the
\* raw_text of each transaction is contained whole in the text of the chunk
\* that lists it.
C13_TransactionInOneChunk ==
    (ProcessDone /\ Has(doc, "chunks")) =>
        /\ Listed(chunks, Len(chunks))
              = ParsedFromDocument(doc.chunks, Len(doc.chunks))
        /\ \A i \in 1..Len(chunks) :
              \A k \in 1..Len(ListedIn(chunks[i])) :
                  includes(chunks[i].chunk_text, ListedIn(chunks[i])[k].raw_text)

\* A table section beyond the size was cut by transactions: two successive
\* chunks list different transactions of it under the same header.
C13_Witness ==
    /\ ProcessDone /\ Has(doc, "chunks")
    /\ \E i \in 1..(Len(chunks) - 1) :
          /\ Len(ListedIn(chunks[i])) > 0 /\ Len(ListedIn(chunks[i + 1])) > 0
          /\ ListedIn(chunks[i])[1] # ListedIn(chunks[i + 1])[1]
          /\ TableHeader(chunks[i].chunk_text) # ""
          /\ TableHeader(chunks[i].chunk_text) = TableHeader(chunks[i + 1].chunk_text)

---------------------------------------------------------------------------
(* Claims about the input document, checked under SpecParsed.              *)

\* The fragments of every page of the document are in reading order.
FragmentsInOrder ==
    HasPages =>
        \A i \in 1..Len(parsedDoc.pages) :
            HasFragments(i) =>
                sortByReadingOrder(parsedDoc.pages[i].page_fragments)
                    = parsedDoc.pages[i].page_fragments

\* C14: extractFromParsedDocument leaves its input document unchanged: no
\* step of it changes the document, in particular not the order of the
\* elements of a page's page_fragments array.
C14_InputUnchanged == [][op = "parsed" => parsedDoc' = parsedDoc]_vars

\* C14 where the code agrees: the document is unchanged when the fragments
\* of its pages are given in reading order.
C14_InputUnchanged_FragmentsInOrder ==
    [][(op = "parsed" /\ FragmentsInOrder) => parsedDoc' = parsedDoc]_vars

\* A page whose fragments were given out of reading order was extracted, and
\* the document now holds them in reading order.
FragmentsReordered ==
    /\ InPageBody
    /\ Len(CurrentPage.page_fragments) = 2
    /\ CurrentPage.page_fragments[1].fragment_type = "table"
    /\ CurrentPage.page_fragments[2].content = "x y"
    /\ FragmentsInOrder

---------------------------------------------------------------------------
(* POST /segment: ensurePayload, sanitizeMax and handleSegment.            *)
(*                                                                         *)
(* The values of the payload's scalar fields carry their JavaScript type:  *)
(* [type, value] a string, [type, kind, value] a number (kind "finite",    *)
(* "NaN", "Infinity" or "-Infinity"), [type, flag] a boolean, [type,       *)
(* fields] an object, [type] null and undefined.  The payload itself, the  *)
(* pages and the chunks are records and arrays as in the other paths.      *)

JsString(str) == [type |-> "string", value |-> str]

JsNumber(n) == [type |-> "number", kind |-> "finite", value |-> n]

JsNaN == [type |-> "number", kind |-> "NaN", value |-> 0]

JsInfinity == [type |-> "number", kind |-> "Infinity", value |-> 0]

JsMinusInfinity == [type |-> "number", kind |-> "-Infinity", value |-> 0]

JsBoolean(b) == [type |-> "boolean", flag |-> b]

JsNull == [type |-> "null"]

JsUndefined == [type |-> "undefined"]

JsObject(fields) == [type |-> "object", fields |-> fields]

\* obj?.field: undefined when the object has no such field.
Member(obj, field) == IF Has(obj, field) THEN obj[field] ELSE JsUndefined

\* The value of a non-empty string of digits.
RECURSIVE DigitsValue(_)
DigitsValue(digits) ==
    IF Len(digits) = 0 THEN 0
    ELSE 10 * DigitsValue(SubSeq(digits, 1, Len(digits) - 1))
         + (CHOOSE d \in 0..9 : ToString(d) = CharAt(digits, Len(digits) - 1))

\* Number(str) of a string: blank is 0, an optionally signed run of digits
\* its value, the spellings of infinity the infinities, anything else NaN
\* (fractions, exponents and radix prefixes are left out of the model).
StringToNumber(str) ==
    LET t == trim(str)
        sign == CharAt(t, 0)
        digits == IF sign \in {"+", "-"} THEN slice(t, 1, Len(t)) ELSE t
    IN  IF t = "" THEN JsNumber(0)
        ELSE IF t \in {"Infinity", "+Infinity"} THEN JsInfinity
        ELSE IF t = "-Infinity" THEN JsMinusInfinity
        ELSE IF digits # "" /\ AllDigits(digits)
        THEN JsNumber(IF sign = "-" THEN 0 - DigitsValue(digits)
                      ELSE DigitsValue(digits))
        ELSE JsNaN

\* Number(v)
ToNumber(v) ==
    CASE v.type = "number" -> v
      [] v.type = "string" -> StringToNumber(v.value)
      [] v.type = "boolean" -> JsNumber(IF v.flag THEN 1 ELSE 0)
      [] v.type = "null" -> JsNumber(0)
      [] OTHER -> JsNaN

\* The max of a payload without a usable max_chars_per_chunk.
DefaultMax == 12000

\* The greatest max.
MaxCap == 60000

\* The sanitizing that does not cap.
sanitizeMax_Uncapped(v) ==
    LET n == ToNumber(v)
    IN  IF n.kind # "finite" \/ n.value <= 0 THEN DefaultMax ELSE n.value

sanitizeMax(v) ==
    LET n == ToNumber(v)
    IN  IF n.kind # "finite" \/ n.value <= 0 THEN DefaultMax
        ELSE Min(n.value, MaxCap)

\* if (v), for a value of the payload.
JsTruthy(v) ==
    CASE v.type = "object" -> TRUE
      [] v.type = "string" -> v.value # ""
      [] v.type = "number" -> v.kind # "NaN" /\ (v.kind = "finite" => v.value # 0)
      [] v.type = "boolean" -> v.flag
      [] OTHER -> FALSE

\* typeof obj?.field === "string" ? obj.field.trim() : ""
TrimmedString(obj, field) ==
    IF Member(obj, field).type = "string" THEN trim(obj[field].value) ELSE ""

\* obj?.parsed_document || obj?.document || obj
ParsedDocOf(obj) ==
    IF JsTruthy(Member(obj, "parsed_document")) THEN obj.parsed_document
    ELSE IF JsTruthy(Member(obj, "document")) THEN obj.document
    ELSE JsObject(obj)

\* parsedDoc.pages || parsedDoc.chunks (an array is truthy, also when
\* empty).
HasPagesOrChunks(v) ==
    v.type = "object" /\ (Has(v.fields, "pages") \/ Has(v.fields, "chunks"))

\* The message of the error (its backquotes are written as apostrophes, a
\* TLA+ string has none).
EmptyPayloadMessage ==
    "Empty payload: provide 'html', 'text', or 'parsed_document'."

\* The error ensurePayload throws.
EmptyPayloadError ==
    [threw |-> TRUE, statusCode |-> 400, message |-> EmptyPayloadMessage]

\* Lines 4-24: what ensurePayload returns, or the error it throws; the
\* parsedDoc it returns is null in the last return.
ensurePayload(obj) ==
    LET payloadHtml == TrimmedString(obj, "html")
        payloadText == TrimmedString(obj, "text")
        payloadDoc == ParsedDocOf(obj)
        payloadMax == sanitizeMax(Member(obj, "max_chars_per_chunk"))
    IN  IF HasPagesOrChunks(payloadDoc)
        THEN [threw |-> FALSE, html |-> payloadHtml, text |-> payloadText,
              parsedDoc |-> payloadDoc, max |-> payloadMax]
        ELSE IF payloadHtml = "" /\ payloadText = "" THEN EmptyPayloadError
        ELSE [threw |-> FALSE, html |-> payloadHtml, text |-> payloadText,
              parsedDoc |-> JsNull, max |-> payloadMax]

\* cheerio.load(html) of the markups of the model: [nonTable, tables] as
\* extractFromHtml reads them.
Markups ==
    {"<p>a b</p>", "<table><tr><td>a</td><td>b</td></tr></table>Chase"}

cheerioLoad(markup) ==
    CASE markup = "<p>a b</p>" -> [nonTable |-> "a b", tables |-> <<>>]
      [] OTHER -> [nonTable |-> "Chase", tables |-> <<TableOfKind(1)>>]

\* No response is sent yet.
NoResponse == [status |-> 0, body |-> <<>>]

\* res.status(status).json([{ ok: false, error: message }])
ErrorResponse(err) ==
    [status |-> err.statusCode, body |-> <<[ok |-> FALSE, error |-> err.message]>>]

\* chunks.reduce((acc, c) => acc + c.char_len, 0)
RECURSIVE totalChars(_)
totalChars(cs) ==
    IF Len(cs) = 0 THEN 0 ELSE cs[Len(cs)].char_len + totalChars(SubSeq(cs, 1, Len(cs) - 1))

\* Math.round(a / b) of a non-negative a and a positive b.
RoundedQuotient(a, b) == (2 * a + b) \div (2 * b)

\* res.json(out), out what handleSegment returns.
OkResponse ==
    [status |-> 200,
     body |-> <<[ok |-> TRUE,
                 bank_name |-> bankName,
                 stats |-> [total_chunks |-> Len(chunks),
                            total_chars |-> totalChars(chunks),
                            avg_chunk_size |->
                                RoundedQuotient(totalChars(chunks),
                                                Max(Len(chunks), 1)),
                            tables_detected |-> tablesDetected],
                 chunks |-> chunks]>>]

\* Line 3 of handleSegment and the branch on html: ensurePayload either
\* throws, and the handler of POST /segment answers with the error, or
\* returns html, text and max, and extractFromHtml or extractFromText is
\* called.
HandleEnter ==
    /\ op = "handle" /\ pc = "call"
    /\ \E p \in {ensurePayload(input)} :
          IF p.threw
          THEN /\ res' = ErrorResponse(p)
               /\ pc' = "done"
               /\ UNCHANGED <<op, max, text, html>>
          ELSE /\ max' = p.max
               /\ pc' = "call"
               /\ res' = res
               /\ IF p.html # ""
                  THEN op' = "html" /\ html' = cheerioLoad(p.html) /\ text' = text
                  ELSE op' = "text" /\ text' = p.text /\ html' = html
    /\ UNCHANGED <<s, start, out, loopVars, idx, chunks, bankName,
                   tablesDetected, doc, input,
                   tableTransactions>>

\* The return of handleSegment, and res.json(out).
HandleReturn ==
    /\ op \in {"html", "text"} /\ pc = "done"
    /\ res' = OkResponse
    /\ pc' = "sent"
    /\ UNCHANGED <<op, max, s, start, out, loopVars, idx, chunks, bankName,
                   tablesDetected, text, html, doc, input,
                   tableTransactions>>

\* The documents of the payloads: without pages and chunks, with a page,
\* with pre-chunked content.
PayloadDocuments ==
    {JsObject([labels |-> [bank |-> "Chase"]]),
     JsObject([pages |-> PagesOfKinds(<<2>>, 1, "none")]),
     JsObject([chunks |-> <<[content |-> "ab. cd"]>>])}

\* The values of max_chars_per_chunk.
MaxValues ==
    {JsNumber(n) : n \in {0 - 1, 0, 1, 3, MaxCap - 1, MaxCap, MaxCap + 1}}
    \cup {JsNaN, JsInfinity, JsMinusInfinity, JsNull}
    \cup {JsString(str) : str \in {"", " 3 ", "-3", "70000", "3px", "Infinity"}}
    \cup {JsBoolean(b) : b \in BOOLEAN}
    \cup {JsObject(<<>>)}

\* The payloads: every field is left out or has one of a few values.
Payloads ==
    {h @@ t @@ pd @@ d @@ root @@ m :
        h \in {<<>>} \cup {"html" :> v :
                  v \in {JsString(" "), JsNumber(5)}
                        \cup {JsString(" " \o w \o "\n") : w \in Markups}},
        t \in {<<>>} \cup {"text" :> JsString(w) : w \in {"", " \n", " a b. c\td"}},
        pd \in {<<>>} \cup {"parsed_document" :> v : v \in PayloadDocuments \cup {JsNull}},
        d \in {<<>>} \cup {"document" :> v : v \in PayloadDocuments},
        root \in {<<>>, [pages |-> <<>>], [chunks |-> <<[content |-> "ab. cd"]>>]},
        m \in {<<>>, "max_chars_per_chunk" :> JsNumber(3)}}
    \cup
    {("text" :> JsString(" a b. c\td")) @@ ("max_chars_per_chunk" :> v) :
        v \in MaxValues}

InitHandle ==
    /\ op = "handle" /\ pc = "call"
    /\ input \in Payloads
    /\ res = NoResponse
    /\ max = 0
    /\ NoResult
    /\ IdleChunkify /\ IdleParsed /\ IdleText /\ IdleHtml /\ IdleProcess
    /\ IdleTable

NextHandle == HandleEnter \/ extractFromHtml \/ extractFromText \/ HandleReturn

SpecHandle == InitHandle /\ [][NextHandle]_vars

\* ensurePayload has returned or thrown.
Ensured == ~(op = "handle" /\ pc = "call")

\* The response is sent.
Sent == res.status # 0

---------------------------------------------------------------------------
(* Claims about POST /segment, checked under SpecHandle.                   *)

\* The payload's html, and its text, is a string that is not blank.
HtmlGiven == TrimmedString(input, "html") # ""

TextGiven == TrimmedString(input, "text") # ""

\* The payload carries a parsed document, one with pages or chunks, under
\* parsed_document, under document, or at the root.
CarriesDocument ==
    \/ HasPagesOrChunks(Member(input, "parsed_document"))
    \/ HasPagesOrChunks(Member(input, "document"))
    \/ HasPagesOrChunks(JsObject(input))

\* The path the routing rule gives the payload: HTML when html is given,
\* plain text when only text is given, the parsed document otherwise.
StatedPath ==
    IF HtmlGiven THEN "html" ELSE IF TextGiven THEN "text" ELSE "parsed"

\* C15: handleSegment takes the HTML path when html is non-blank, the
\* plain-text path when only text is non-blank, and the parsed-document path
\* when the payload carries a parsed document and no html or text; the
\* chunks of the response are those the path taken produced (page
\* consolidation, for a parsed document).
C15_ThreeWayRouting ==
    (HtmlGiven \/ TextGiven \/ CarriesDocument) =>
        /\ Ensured => op = StatedPath
        /\ Sent => (res.status = 200 /\ res.body[1].chunks = chunks)

\* C15 where the code agrees: the same, for the payloads that give html or
\* text.
C15_ThreeWayRouting_HtmlOrText ==
    (HtmlGiven \/ TextGiven) =>
        /\ Ensured => op = StatedPath
        /\ Sent => (res.status = 200 /\ res.body[1].chunks = chunks)

\* A payload with a page of text and neither html nor text was answered by
\* the plain-text path, with no chunk.
ParsedDocumentReadAsText ==
    /\ Sent /\ ~HtmlGiven /\ ~TextGiven
    /\ HasPagesOrChunks(Member(input, "parsed_document"))
    /\ Has(input.parsed_document.fields, "pages")
    /\ op = "text" /\ res.status = 200 /\ res.body[1].chunks = <<>>

\* A payload that gives html and text was answered by the HTML path, with
\* chunks.
HtmlBeforeText ==
    /\ Sent /\ res.status = 200 /\ Len(res.body[1].chunks) > 0
    /\ HtmlGiven /\ TextGiven /\ op = "html"

\* The response is the client error of ensurePayload.
Rejected ==
    /\ res.status = 400
    /\ res.body = <<[ok |-> FALSE, error |-> EmptyPayloadMessage]>>

\* C16: ensurePayload raises the client error (statusCode 400, the message
\* "Empty payload: ...") exactly when html and text are both absent or
\* blank after trimming and the payload carries no parsed document with
\* pages or chunks under parsed_document, under document or at the root; the
\* server answers the error with that status and [{ok: false, error}], and
\* in every other case ensurePayload returns normally.
C16_InvalidInput ==
    Ensured => (Rejected <=> (~HtmlGiven /\ ~TextGiven /\ ~CarriesDocument))

\* The first of parsed_document, document and the payload itself that is
\* not null or missing has neither pages nor chunks, and one after it has.
Shadowed == CarriesDocument /\ ~HasPagesOrChunks(ParsedDocOf(input))

\* C16 where the code agrees: the same, for the payloads in which no value
\* without pages and chunks stands before the parsed document.
C16_InvalidInput_NotShadowed ==
    (Ensured /\ ~Shadowed) =>
        (Rejected <=> (~HtmlGiven /\ ~TextGiven /\ ~CarriesDocument))

\* A payload without anything to segment was rejected.
EmptyRejected ==
    /\ Ensured /\ Rejected /\ ~Shadowed
    /\ Has(input, "html") /\ Has(input, "text") /\ Has(input, "parsed_document")

\* A payload whose document has pages was rejected: its parsed_document has
\* none.
ShadowedRejected ==
    /\ Ensured /\ Rejected /\ Shadowed
    /\ HasPagesOrChunks(Member(input, "document"))

\* The max of the sanitizing rule for the value v: 12000 when v is absent,
\* not numeric, not finite or not positive, and min(v, 60000) otherwise.  A
\* value is numeric when it is a number or converts to one: a string that
\* spells a number, and a boolean, which counts as 0 or 1.
StatedMax(v) ==
    CASE v.type \in {"undefined", "null", "object"} -> DefaultMax
      [] v.type = "boolean" -> IF v.flag THEN 1 ELSE DefaultMax
      [] v.type = "number" ->
            IF v.kind # "finite" \/ v.value <= 0 THEN DefaultMax
            ELSE IF v.value < MaxCap THEN v.value ELSE MaxCap
      [] v.type = "string" ->
            LET n == StringToNumber(v.value)
            IN  IF n.kind # "finite" \/ n.value <= 0 THEN DefaultMax
                ELSE IF n.value < MaxCap THEN n.value ELSE MaxCap

---------------------------------------------------------------------------
(* detectBankName on any text.                                             *)

\* What the texts handed to detectBankName are made of: the names as they
\* are listed, in lower and in upper case, and words that are no name.
BankWords ==
    {"", "Chase", "chase", "CHASE", "Wells Fargo", "wells fargo", "WELLS FARGO",
     "Bank of America", "bank of america", "BANK OF AMERICA", "Chas",
     "Wells  Fargo", "account"}

BankTexts ==
    {"Your Chase account summary"}
    \cup {p \o a \o q \o b : p \in {"", "Your "}, a \in BankWords,
                             q \in {"", " and "}, b \in BankWords}

InitBank ==
    /\ op = "bank" /\ pc = "call"
    /\ text \in BankTexts
    /\ max = 0
    /\ NoResult
    /\ IdleChunkify /\ IdleParsed /\ IdleHtml /\ IdleProcess /\ IdleHandle
    /\ IdleTable

\* detectBankName(text)
BankDetect ==
    /\ op = "bank" /\ pc = "call"
    /\ bankName' = detectBankName(text)
    /\ pc' = "done"
    /\ UNCHANGED <<op, max, s, start, out, loopVars, idx, chunks,
                   tablesDetected, text, html, doc, input, res,
                   tableTransactions>>

SpecBank == InitBank /\ [][BankDetect]_vars

BankDone == op = "bank" /\ pc = "done"

\* Two characters are the same but for their case.
SameIgnoringCase(c, d) ==
    \/ c = d
    \/ \E i \in 0..25 :
          {c, d} = {CharAt(UpperCase, i), CharAt(LowerCase, i)}

\* name occurs in txt as a case-insensitive substring.
Occurs(name, txt) ==
    \E i \in 0..(Len(txt) - Len(name)) :
        \A k \in 0..(Len(name) - 1) :
            SameIgnoringCase(CharAt(txt, i + k), CharAt(name, k))

\* The least offset at which name occurs in txt.
FirstOffset(name, txt) ==
    SetMin({i \in 0..(Len(txt) - Len(name)) :
               \A k \in 0..(Len(name) - 1) :
                   SameIgnoringCase(CharAt(txt, i + k), CharAt(name, k))})

\* The positions in the list of the names that occur in the text.
Occurring == {k \in 1..Len(BANK_NAMES) : Occurs(BANK_NAMES[k], text)}

\* C18: detectBankName returns the first name in list order that occurs in
\* the text as a case-insensitive substring, whatever its position in the
\* text, and "Unknown" exactly when no listed name occurs.
C18_FirstListedName ==
    BankDone =>
        /\ Occurring # {} => bankName = BANK_NAMES[SetMin(Occurring)]
        /\ bankName = "Unknown" <=> Occurring = {}

\* Two listed names occur in the text, the one later in the list first and
\* in another case than listed; the one earlier in the list was returned.
C18_Witness ==
    /\ BankDone /\ Cardinality(Occurring) = 2
    /\ bankName = BANK_NAMES[SetMin(Occurring)]
    /\ ~includes(text, bankName)
    /\ FirstOffset(BANK_NAMES[SetMax(Occurring)], text) < FirstOffset(bankName, text)

\* Scenario 5: "Your Chase account summary" gives "Chase".
ScenarioBank ==
    BankDone /\ text = "Your Chase account summary" /\ bankName = "Chase"

---------------------------------------------------------------------------
(* The breakpoint rule of chunkify, checked under SpecChunkify.            *)

\* The offsets in the window [start, start + max) at which a breakpoint, a
\* double newline or a period followed by a space, starts, the breakpoint
\* lying in the window with both its characters.
WindowBreaks ==
    {b \in 0..(max - 2) : slice(s, start + b, start + b + 2) \in {"\n\n", ". "}}

\* Where the rule ends the segment that starts at the cursor.
StatedEnd ==
    IF Len(s) - start > max
    THEN IF WindowBreaks # {} /\ SetMax(WindowBreaks) > MinBreak
         THEN start + SetMax(WindowBreaks) + 1
         ELSE start + max
    ELSE Len(s)

BreakAtWindowEnd ==
    /\ op = "chunkify" /\ pc = "loop" /\ Len(out) = 1
    /\ start > MinBreak + 1 /\ start < max
    /\ slice(s, max - 1, max + 1) \in {"\n\n", ". "}

---------------------------------------------------------------------------
(* The blocks of splitTableLikeBlocks, checked under SpecText.             *)

\* The blocks of the text extractFromText was given.
BlocksOfText == splitTableLikeBlocks(text)

\* The places where two consecutive blocks have the same type.
SameTypePairs(blocks) ==
    {i \in 1..(Len(blocks) - 1) : blocks[i].type = blocks[i + 1].type}

\* C20 as stated: no two consecutive blocks returned by splitTableLikeBlocks
\* have the same type, also when two table runs are separated only by blank
\* lines.
C20_Alternation_Original ==
    TextDone => SameTypePairs(BlocksOfText) = {}

\* C20, corrected: two consecutive blocks have the same type only when
\* their contents together are 2000 characters or longer; below that the
\* blocks alternate in type, also when two table runs are separated only by
\* blank lines.
C20_Alternation ==
    TextDone =>
        \E blocks \in {BlocksOfText} :
            \A i \in SameTypePairs(blocks) :
                Len(blocks[i].content) + Len(blocks[i + 1].content) >= MergeLimit

\* Two table runs separated only by a blank line, together shorter than
\* 2000 characters, came out as one table block.
C20_Witness ==
    /\ TextDone
    /\ includes(text, "\t\n\n\t")
    /\ \E blocks \in {BlocksOfText} :
          /\ Len(blocks) = 1
          /\ blocks[1].type = "table"
          /\ includes(blocks[1].content, "a\nb")
          /\ Len(blocks[1].content) = MergeLimit

\* Two table runs separated only by a blank line came out as two table
\* blocks: together they are 2000 characters long.
TableBlocksApart ==
    /\ TextDone
    /\ \E blocks \in {BlocksOfText} :
          /\ Len(blocks) = 2
          /\ blocks[1].type = "table" /\ blocks[2].type = "table"
          /\ Len(blocks[1].content) + Len(blocks[2].content) = MergeLimit

---------------------------------------------------------------------------
(* The lines of the blocks of splitTableLikeBlocks, checked under SpecText. *)

\* The non-blank lines of the text, as text.split(/\r?\n/) cuts them.
InputLines(txt) == SelectSeq(splitLines(txt), LAMBDA l : trim(l) # "")

\* The non-blank lines of the blocks from block i on, in the order of the
\* blocks, each with the type of its block.
RECURSIVE BlockLinesFrom(_, _)
BlockLinesFrom(blocks, i) ==
    IF i > Len(blocks) THEN <<>>
    ELSE LET ls == NonBlankLines(blocks[i].content)
         IN  [k \in 1..Len(ls) |-> [line |-> ls[k], type |-> blocks[i].type]]
             \o BlockLinesFrom(blocks, i + 1)

BlockLines(blocks) == BlockLinesFrom(blocks, 1)

\* The type the loop gives a line.
LineType(l) == IF isTableRow(l) THEN "table" ELSE "text"

\* No block is empty.
NoEmptyBlock(blocks) == \A i \in 1..Len(blocks) : blocks[i].content # ""

\* C21 as stated: every non-blank line of the input appears in exactly one
\* block returned by splitTableLikeBlocks, the lines keep their input order
\* within and across blocks, every line of a table block is table-like or
\* blank, every non-blank line of a text block is not table-like, and no
\* block has empty content.
C21_BlockCoverage_Original ==
    TextDone =>
        \E blocks \in {BlocksOfText} :
        \E ls \in {BlockLines(blocks)} :
            /\ [k \in 1..Len(ls) |-> ls[k].line] = InputLines(text)
            /\ \A k \in 1..Len(ls) : ls[k].type = LineType(ls[k].line)
            /\ NoEmptyBlock(blocks)

\* C21, corrected: the non-blank lines of the blocks are, in order and one
\* for one, the non-blank lines of the input up to the whitespace that
\* trimming a block takes from the ends of its lines; a line is in a table
\* block exactly when it was table-like as it stood in the input; and no
\* block has empty content.
C21_BlockCoverage ==
    TextDone =>
        \E blocks \in {BlocksOfText} :
        \E ls \in {BlockLines(blocks)} :
        \E ins \in {InputLines(text)} :
            /\ Len(ls) = Len(ins)
            /\ \A k \in 1..Len(ls) :
                  /\ trim(ls[k].line) = trim(ins[k])
                  /\ ls[k].type = LineType(ins[k])
            /\ NoEmptyBlock(blocks)

\* A text of a text line, a blank line and a table row came out as two
\* blocks, and the table row lost the tab that made it one.
C21_Witness ==
    /\ TextDone
    /\ text = "a\n\n\ta"
    /\ BlocksOfText = <<[type |-> "text", content |-> "a"],
                        [type |-> "table", content |-> "a"]>>

\* Lines of both types, in blocks where every line is as it was in the
\* input.
LinesVerbatim ==
    /\ TextDone
    /\ \E blocks \in {BlocksOfText} :
          /\ Len(blocks) >= 2
          /\ \E ls \in {BlockLines(blocks)} :
                [k \in 1..Len(ls) |-> ls[k].line] = InputLines(text)

---------------------------------------------------------------------------
(* The condition of the fallback, checked under SpecParsed.                *)

\* The chunks the fallback built from the pre-chunked array: they carry no
\* page_range.
FallbackBuilt == SelectSeq(chunks, LAMBDA c : ~Has(c, "page_range"))

\* Some page of the document has a page_fragments field.
SomePageHasFragments ==
    HasPages /\ \E i \in 1..Len(parsedDoc.pages) : HasFragments(i)

\* C22: extractFromParsedDocument builds chunks from the pre-chunked chunks
\* array only when the document has no fragment-bearing pages; whenever at
\* least one page carries fragments, the output is built from the pages and
\* the chunks array is not used.
C22_FallbackCondition ==
    (ParsedDone /\ SomePageHasFragments) => FallbackBuilt = <<>>

\* C22 where the code agrees: when some page has content and the last page
\* has a page_fragments field, no chunk is built from the chunks array.
C22_FallbackCondition_ContentFlushed ==
    (/\ ParsedDone /\ HasPages
     /\ \E i \in 1..Len(parsedDoc.pages) : BearsContent(i)
     /\ HasFragments(Len(parsedDoc.pages)))
        => FallbackBuilt = <<>>

\* The fallback's condition as the code has it: a chunk is built from the
\* chunks array only when the page loop emitted no chunk.
C22_FallbackCondition_NoPageChunk ==
    ParsedDone => (FallbackBuilt = <<>> \/ PageChunks = <<>>)

\* The first page has content, the last has no page_fragments field, and
\* the output is built from the chunks array.
FallbackDespiteContent ==
    /\ ParsedDone /\ HasPages /\ Len(parsedDoc.pages) >= 2
    /\ BearsContent(1)
    /\ ~HasFragments(Len(parsedDoc.pages))
    /\ Len(chunks) = 1 /\ ~Has(chunks[1], "page_range")
    /\ chunks[1].chunk_text = consolidatedContent(parsedDoc.chunks)
    /\ chunks[1].chunk_text # ""

\* Every page with fragments holds only a footer, and the output is built
\* from the chunks array.
FallbackDespiteFooter ==
    /\ ParsedDone /\ SomePageHasFragments
    /\ \A i \in 1..Len(parsedDoc.pages) : HasFragments(i) /\ ~BearsContent(i)
    /\ FallbackBuilt # <<>>

\* Pages with content and a chunks array: the output is built from the
\* pages.
PagesBeforeChunkArray ==
    /\ ParsedDone /\ SomePageHasFragments /\ Has(parsedDoc, "chunks")
    /\ Len(parsedDoc.chunks) > 0
    /\ chunks # <<>> /\ FallbackBuilt = <<>>

---------------------------------------------------------------------------
(* extractTransactionsFromTable, applied to tables of one or two rows.     *)

\* The first lines of the tables: none, one that names debit and credit
\* columns, one that names an amount column.
TableHeadings == {"", "Date Description Debit Credit\n", "Date Description Amount\n"}

RowDates == {"01/15", "Jan 5", "01-15"}

RowDescriptions == {"Coffee Shop", "deposit", "fee"}

\* What follows the description: no amount, one amount, an amount and a
\* balance, an amount of zero.
RowTails == {"", " -$4.50", " 4.50", " 4.50 95.50", " -$4.50 95.50", " $0.00", " 1,200.00"}

\* The lines after the row: none, or a row with a signed amount.
TableEndings == {"", "\n01/16 x -$1.00"}

TableSamples ==
    {h \o d \o " " \o w \o t \o e :
        h \in TableHeadings, d \in RowDates, w \in RowDescriptions,
        t \in RowTails, e \in TableEndings}

InitTable ==
    /\ op = "table" /\ pc = "call"
    /\ text \in TableSamples
    /\ max = 0
    /\ NoResult
    /\ IdleChunkify /\ IdleParsed /\ IdleHtml /\ IdleProcess /\ IdleHandle
    /\ IdleTable

\* extractTransactionsFromTable(tableText)
ExtractTable ==
    /\ op = "table" /\ pc = "call"
    /\ tableTransactions' = extractTransactionsFromTable(text)
    /\ pc' = "done"
    /\ UNCHANGED <<op, max, s, start, out, loopVars, idx, chunks, bankName,
                   tablesDetected, text, html, doc, input, res>>

SpecTable == InitTable /\ [][ExtractTable]_vars

TableDone == op = "table" /\ pc = "done"

\* The numeric tokens of the row of transaction t that are not of its date:
\* those of the row with the date taken out.
TokensBesideDate(t) ==
    Once(indexOf(t.raw_text, t.date), LAMBDA at :
        Amounts(slice(t.raw_text, 0, at) \o " "
                \o slice(t.raw_text, at + Len(t.date), Len(t.raw_text))))

\* The balance of t stands as the statement has it: t has a balance only
\* when its row has, beside the date, two numeric tokens or more, and amount
\* and balance are such tokens (the amount without its sign), the balance
\* not the token the amount was taken from.
BalanceAsStated(t) ==
    \E tokens \in {TokensBesideDate(t)} :
        /\ \E k \in 1..Len(tokens) : abs(tokens[k]) = t.amount
        /\ Has(t, "balance") =>
              /\ Len(tokens) >= 2
              /\ \E j, k \in 1..Len(tokens) :
                    j # k /\ abs(tokens[j]) = t.amount /\ tokens[k] = t.balance

\* The row of the statement's example.
ExampleRow == "01/15 Coffee Shop -$4.50"

\* C23: extractTransactionsFromTable sets balance on a transaction only when
\* the row contains, in addition to its date, a second numeric token
\* distinct from the token taken as the amount; the digits of the date never
\* count as amount or balance, so the row "01/15 Coffee Shop -$4.50" yields a
\* transaction with the amount 4.50 and no balance.
C23_Balance ==
    TableDone =>
        \A i \in 1..Len(tableTransactions) :
            \E t \in {tableTransactions[i]} :
                /\ BalanceAsStated(t)
                /\ t.raw_text = ExampleRow =>
                      t.amount = Decimal(FALSE, "4", "50") /\ ~Has(t, "balance")

\* C23 as the code has it: a transaction has a balance only when its row
\* has two numeric tokens other than 0 or more, those of the date counted,
\* and the balance is the last of them.
C23_Balance_CountingDate ==
    TableDone =>
        \A i \in 1..Len(tableTransactions) :
            \E t \in {tableTransactions[i]} :
                Has(t, "balance") =>
                    \E amounts \in {Amounts(t.raw_text)} :
                        Len(amounts) >= 2 /\ t.balance = Last(amounts)

\* The example row alone: its transaction is a debit of 4.50 with the
\* balance -4.50, the amount itself.
BalanceFromTheAmount ==
    /\ TableDone /\ text = ExampleRow
    /\ Len(tableTransactions) = 1
    /\ tableTransactions[1].type = "debit"
    /\ tableTransactions[1].amount = Decimal(FALSE, "4", "5")
    /\ tableTransactions[1].balance = Decimal(TRUE, "4", "5")

\* The month of the date is the amount: the row has no sign and names no
\* debit or credit column.
AmountFromTheDate ==
    /\ TableDone /\ text = "01/15 Coffee Shop 4.50"
    /\ Len(tableTransactions) = 1
    /\ tableTransactions[1].amount = Decimal(FALSE, "1", "")
    /\ tableTransactions[1].balance = Decimal(FALSE, "4", "5")

\* Under a debit column the example row is a debit of 4.50 without balance.
DebitWithoutBalance ==
    /\ TableDone
    /\ text = "Date Description Debit Credit\n" \o ExampleRow
    /\ Len(tableTransactions) = 1
    /\ tableTransactions[1].type = "debit"
    /\ tableTransactions[1].amount = Decimal(FALSE, "4", "5")
    /\ ~Has(tableTransactions[1], "balance")

---------------------------------------------------------------------------
(* The metadata of the chunks of the page loop, checked under SpecParsed.  *)

\* The metadata extracted from each page of the document; that of a page
\* without fragments is empty.
PageMetadatas ==
    [i \in 1..Len(parsedDoc.pages) |->
        IF HasFragments(i) THEN ExtractPage(parsedDoc.pages[i]).metadata
        ELSE EmptyMetadata]

\* has_transactions of some page of a..b.
AnyTransactions(metas, a, b) == \E i \in a..b : metas[i].has_transactions

\* The transaction counts of the pages a..b, summed.
RECURSIVE CountSum(_, _, _)
CountSum(metas, a, b) ==
    IF a > b THEN 0
    ELSE metas[a].transaction_count + CountSum(metas, a + 1, b)

\* The chunks cs[j], cs[j + 1], ... hold, in this order, consecutive runs of
\* the pages from, from + 1, ..., n, and each has the has_table and the
\* transaction_count of its run.
RECURSIVE MetadataOfRuns(_, _, _, _, _)
MetadataOfRuns(cs, metas, j, from, n) ==
    IF j > Len(cs) THEN TRUE
    ELSE \E a \in from..n : \E b \in a..n :
            /\ \A i \in from..(a - 1) : ~BearsContent(i)
            /\ HoldsPages(cs[j], a, b)
            /\ cs[j].has_table = AnyTransactions(metas, a, b)
            /\ cs[j].metadata.has_transactions = cs[j].has_table
            /\ cs[j].metadata.transaction_count = CountSum(metas, a, b)
            /\ MetadataOfRuns(cs, metas, j + 1, b + 1, n)

\* Every chunk of the page loop has the metadata of the pages packed into
\* it.
MetadataOfPages ==
    (op = "parsed" /\ pc # "call" /\ HasPages) =>
        MetadataOfRuns(PageChunks, PageMetadatas, 1, 1, Len(parsedDoc.pages))

\* A step leaves the chunks emitted before it with their has_table and
\* their metadata.
FlushedKept ==
    (op = "parsed" /\ pc # "call") =>
        \A i \in 1..Len(chunks) :
            /\ i <= Len(chunks')
            /\ chunks'[i].has_table = chunks[i].has_table
            /\ Has(chunks[i], "metadata") =>
                  /\ Has(chunks'[i], "metadata")
                  /\ chunks'[i].metadata = chunks[i].metadata

\* C24: in the page path of extractFromParsedDocument, every emitted chunk's
\* has_table is the logical OR of has_transactions over the pages packed
\* into the chunk, its metadata.transaction_count is the sum of those pages'
\* transaction counts, and the metadata of a flushed chunk is never changed
\* by pages processed after the flush.
C24_ChunkMetadata == []MetadataOfPages /\ [][FlushedKept]_vars

\* A page of text and a page with a table of one transaction were packed
\* into the first chunk, which was flushed before another page with one
\* transaction was processed.
C24_Witness ==
    /\ ParsedDone /\ HasPages /\ Len(parsedDoc.pages) = 3
    /\ Len(PageChunks) = 2
    /\ ~PageMetadatas[1].has_transactions
    /\ PageMetadatas[2].has_transactions
    /\ HoldsPages(PageChunks[1], 1, 2)
    /\ PageChunks[1].has_table
    /\ PageChunks[1].metadata.transaction_count = 1
    /\ PageChunks[2].metadata.transaction_count = 1

\* Two pages with tables in one chunk: three transactions and one, four in
\* the chunk.
CountsSummed ==
    /\ ParsedDone /\ HasPages /\ Len(parsedDoc.pages) = 2
    /\ Len(PageChunks) = 1
    /\ PageMetadatas[1].transaction_count = 3
    /\ PageMetadatas[2].transaction_count = 1
    /\ PageChunks[1].metadata.transaction_count = 4

---------------------------------------------------------------------------
(* Termination of chunkify: the loop runs on until its condition fails.    *)

\* chunkify runs to its return: a call that can take a step takes it.
SpecChunkifyFair == SpecChunkify /\ WF_vars(NextChunkify)

\* One iteration moves the cursor forward: by max, or by more than 201
\* characters to just after the first character of a breakpoint of the
\* window, or to the end of s; never by more than max.
CursorAdvances ==
    ChunkifyStep =>
        /\ start' > start
        /\ start' - start <= max
        /\ \/ start' = start + max
           \/ /\ start' - start > MinBreak + 1
              /\ start' < Min(start + max, Len(s))
              /\ slice(s, start' - 1, start' + 1) \in {"\n\n", ". "}
           \/ start' = Len(s)

\* The loop ends with the cursor at the end of s.
LoopEndsAtEnd == ChunkifyReturn => start = Len(s)

\* C25: for every string s and every max >= 1, chunkify(s, max) terminates;
\* in each iteration of the loop the cursor strictly increases (by exactly
\* max, or by more than 201 when a breakpoint is used, or to the end of s),
\* and the loop ends with the cursor equal to len(s).
C25_Termination ==
    /\ [][CursorAdvances]_vars
    /\ [][LoopEndsAtEnd]_vars
    /\ <>ChunkifyDone

\* chunkify returned after a loop whose first iteration was cut at a
\* breakpoint and whose last ran to the end of s.
C25_Witness ==
    /\ ChunkifyDone
    /\ Len(s) > max /\ max >= 1
    /\ start = Len(s)
    /\ ChunkEnd(s, max, 0) > MinBreak + 1
    /\ ChunkEnd(s, max, 0) < Min(max, Len(s))

\* chunkify returned after a loop of three iterations or more, each but the
\* last of max characters.
LoopOfWindows ==
    /\ ChunkifyDone
    /\ start = Len(s)
    /\ Len(s) > 2 * max
    /\ Len(s) <= MaxLen

===========================================================================
